---- MODULE Spec2Model ----
(***************************************************************************)
(* Dual-state layout and morph engine: the distribution generators         *)
(* (utils/math), the per-frame progress integration, position blend and    *)
(* rotation of Foliage, Star, Ornaments, Gift and PolaroidFrame, the       *)
(* CameraRig, and the App state (treeState, handPosition, photos) that     *)
(* drives them through the props the canvas tree was last rendered with.   *)
(*                                                                         *)
(* Numbers are exact rationals <<n, d>> (d > 0, lowest terms).  A value    *)
(* that a frame handler stores and reads back on the next frame (progress, *)
(* a damped rotation) is rounded to the nearest multiple of 1/Resolution,  *)
(* standing for the finite precision of a JavaScript number.               *)
(*                                                                         *)
(* Left out of the frame handlers: material glow and the hover state of a  *)
(* photo frame; scale and the foliage vertex shader are modelled as        *)
(* functions of the progress (SpecScale, SpecVertex).                      *)
(***************************************************************************)
EXTENDS Integers, Sequences, FiniteSets, TLC

VARIABLES
    treeState,    \* App's treeState
    handPosition, \* App's handPosition
    photos,       \* App's photos: the object URLs, in upload order
    nextUrl,      \* the next object URL URL.createObjectURL hands out
    props,        \* the props every canvas component was last rendered with
    data,         \* the endpoint tables built at mount (useMemo)
    progress,     \* userData.progress / uProgress.value of every entity
    position,     \* the position each CPU-path element was last given
    rotation,     \* the Euler rotation each CPU-path element was last given
    rig,          \* the CameraRig group's rotation
    time,         \* the canvas clock's elapsed time
    frames,       \* rendered frames so far
    call,         \* a pure function's invocation: its name and inputs
    ret,          \* what the invocation returned
    pc,           \* "call" before the invocation has run, "done" after
    scn,          \* the one-element scenario: frame count, progress, x
    twin          \* the canvas of a second run that differs in the hand only; in
                  \* SpecLoop, the refs and timers of GestureController

appVars == <<treeState, handPosition, photos, nextUrl>>

canvasVars == <<props, data, progress, position, rotation, rig, time, frames>>

fnVars == <<call, ret, pc>>

vars == <<appVars, canvasVars, fnVars, scn, twin>>

-----------------------------------------------------------------------------
(* Bounds of the model *)

\* progress is kept to multiples of 1/Resolution
Resolution == 3000
\* largest count passed to a generator
MaxCount == 2
\* steps of the progress grid the scale functions are applied on
ScaleGrid == 20

\* uProgress is drawn from the multiples of 1/VertexGrid
VertexGrid == 6

\* requestAnimationFrame calls in one behaviour
MaxRequests == 6

\* frames rendered in one behaviour
MaxFrames == 2
\* largest base the exact integer roots search
RootMax == 10
\* object URLs created in one behaviour before uploads stop
MaxUrls == 1
\* frames of the three-second scenario at 60 frames a second
ScenarioFrames == 180

-----------------------------------------------------------------------------
(* Exact rational arithmetic *)

Abs(n) == IF n < 0 THEN -n ELSE n

RECURSIVE GCD(_, _)
GCD(a, b) == IF b = 0 THEN a ELSE GCD(b, a % b)

LCM(a, b) == (a \div GCD(a, b)) * b

\* n/d in lowest terms, d > 0
Rat(n, d) ==
    LET s == IF d < 0 THEN -1 ELSE 1
        g == GCD(Abs(n), Abs(d))
    IN  <<(s * n) \div g, (s * d) \div g>>

R(n) == <<n, 1>>
Zero == <<0, 1>>
One == <<1, 1>>

RNeg(a) == <<-a[1], a[2]>>

RAdd(a, b) ==
    LET l == LCM(a[2], b[2])
    IN  Rat(a[1] * (l \div a[2]) + b[1] * (l \div b[2]), l)

RSub(a, b) == RAdd(a, RNeg(b))

RMul(a, b) ==
    LET g1 == GCD(Abs(a[1]), b[2])
        g2 == GCD(Abs(b[1]), a[2])
    IN  Rat((a[1] \div g1) * (b[1] \div g2), (a[2] \div g2) * (b[2] \div g1))

\* a / b, b # 0
RDiv(a, b) == RMul(a, Rat(b[2], b[1]))

RLe(a, b) ==
    LET l == LCM(a[2], b[2])
    IN  a[1] * (l \div a[2]) <= b[1] * (l \div b[2])

RLt(a, b) == RLe(a, b) /\ a # b

RAbs(a) == <<Abs(a[1]), a[2]>>

RMax(a, b) == IF RLe(a, b) THEN b ELSE a

\* a within [lo, hi]
RBetween(a, lo, hi) == RLe(lo, a) /\ RLe(a, hi)

\* the multiple of 1/Resolution nearest to a
Quantize(a) ==
    LET g == GCD(Resolution, a[2])
        m == Resolution \div g
        e == a[2] \div g
    IN  Rat((2 * a[1] * m + e) \div (2 * e), Resolution)

\* the k-th root of a natural that is a perfect k-th power
IRoot(n, k) == CHOOSE r \in 0..RootMax : r ^ k = n

\* the k-th root of a non-negative rational that is a perfect k-th power
RRoot(a, k) == <<IRoot(a[1], k), IRoot(a[2], k)>>

-----------------------------------------------------------------------------
(* Math and THREE.MathUtils *)

\* Math.PI, to the precision the rotation seeds need
Pi == <<355, 113>>

\* An angle is kept as its cosine and sine, a rational point of the unit
\* circle, which is all the generators and handlers read of it.
A(c, s, d) == [cos |-> Rat(c, d), sin |-> Rat(s, d)]
Cos(a) == a.cos
Sin(a) == a.sin

\* Math.sqrt, Math.cbrt and Math.pow(u, 1.5), Math.pow(u, 1.2) on the draws
\* that have an exact root
Sqrt(u) == RRoot(u, 2)
Cbrt(u) == RRoot(u, 3)
Pow15(u) == LET r == RRoot(u, 2) IN RMul(r, RMul(r, r))
Pow12(u) == LET r == RRoot(u, 5) IN RMul(RMul(RMul(r, r), RMul(r, r)), RMul(r, r))

\* Math.acos(c): the angle in [0, pi] whose cosine is c
Acos(c) == [cos |-> c, sin |-> Sqrt(RSub(One, RMul(c, c)))]

\* THREE.MathUtils.lerp(x, y, t) = (1 - t) * x + t * y
lerp(x, y, t) == RAdd(RMul(RSub(One, t), x), RMul(t, y))

\* componentwise lerp of two 3-vectors
lerp3(a, b, t) == <<lerp(a[1], b[1], t), lerp(a[2], b[2], t), lerp(a[3], b[3], t)>>

-----------------------------------------------------------------------------
(* Math.random(): the values a call may return, by the function applied   *)
(* to the value at the call site                                           *)

\* values in [0, 1) used linearly
LinearDraws == {Zero, <<1, 2>>, <<19, 20>>}
\* values in [0, 1) passed to Math.sqrt or Math.pow(_, 1.5)
SquareDraws == {Zero, <<1, 4>>, <<81, 100>>}
\* values in [0, 1) passed to Math.cbrt
CubeDraws == {Zero, <<1, 8>>, <<729, 1000>>}
\* values in [0, 1) passed to Math.pow(_, 1.2)
FifthDraws == {Zero, <<1, 32>>}
\* values v in [0, 1) passed to Math.acos(2 * v - 1)
AcosDraws == {Zero, <<1, 10>>, <<1, 2>>, <<9, 10>>}
\* the angle Math.random() * Math.PI * 2 (and its 15-turn spiral multiple)
AngleDraws == {A(1, 0, 1), A(3, 4, 5), A(0, 1, 1), A(-4, -3, 5)}

\* randomRange(min, max) = Math.random() * (max - min) + min
randomRange(min, max, u) == RAdd(RMul(u, RSub(max, min)), min)

-----------------------------------------------------------------------------
(* utils/math: the distribution generators.  `rand` is the sequence of     *)
(* draws the loop's iterations take from Math.random(), one record an      *)
(* iteration; an iteration past its end takes SpareDraw.                   *)

\* the draws of one iteration that fix the scatter point
ScatterDraws ==
    [thetaS : {A(3, 4, 5)}, v : AcosDraws \ {<<1, 2>>}, uS : CubeDraws \ {Zero}]
    \cup {[thetaS |-> A(-4, -3, 5), v |-> <<1, 10>>, uS |-> Zero]}

ScatterSpare == [thetaS |-> A(0, 1, 1), v |-> <<1, 2>>, uS |-> <<1, 8>>]

\* the draws of one iteration of generateTreePositions
TreeFormDraws ==
    [uY : SquareDraws, theta : {A(3, 4, 5)}, uR : SquareDraws \ {Zero}]
    \cup {[uY |-> <<81, 100>>, theta |-> A(-4, -3, 5), uR |-> Zero]}

TreeFormSpare == [uY |-> <<1, 4>>, theta |-> A(0, 1, 1), uR |-> <<1, 4>>]

TreeDraw(f, sc, rx, ry, us) ==
    [uY |-> f.uY, theta |-> f.theta, uR |-> f.uR,
     thetaS |-> sc.thetaS, v |-> sc.v, uS |-> sc.uS,
     uRotX |-> rx, uRotY |-> ry, uScale |-> us]

TreeSpare == TreeDraw(TreeFormSpare, ScatterSpare, <<1, 2>>, <<1, 2>>, <<1, 2>>)

TreeDraws ==
    {TreeDraw(f, ScatterSpare, Zero, <<1, 2>>, <<19, 20>>) : f \in TreeFormDraws}
    \cup {TreeDraw(TreeFormSpare, sc, <<1, 2>>, Zero, Zero) : sc \in ScatterDraws}

\* the draw of iteration i (from 0)
Draw(rand, i, spare) == IF i + 1 \in DOMAIN rand THEN rand[i + 1] ELSE spare

\* ScatterPoint with the polar factor left off the y coordinate
ScatterPointNoPolar(scatterRadius, d) ==
    LET thetaS == d.thetaS
        phiS == Acos(RSub(RMul(R(2), d.v), One))
        rS == RMul(Cbrt(d.uS), scatterRadius)
    IN  <<RMul(RMul(rS, Sin(phiS)), Cos(thetaS)),
          RMul(rS, Sin(thetaS)),
          RMul(rS, Cos(phiS))>>

\* the scatter point of generateTreePositions, generatePilePositions and slots
ScatterPoint(scatterRadius, d) ==
    LET thetaS == d.thetaS
        phiS == Acos(RSub(RMul(R(2), d.v), One))
        rS == RMul(Cbrt(d.uS), scatterRadius)
    IN  <<RMul(RMul(rS, Sin(phiS)), Cos(thetaS)),
          RMul(RMul(rS, Sin(phiS)), Sin(thetaS)),
          RMul(rS, Cos(phiS))>>

\* TreeEntry with the radius of the base at every height
TreeEntryNoTaper(height, maxRadius, d) ==
    LET y == RMul(Pow15(d.uY), height)
        theta == d.theta
        r == RMul(Sqrt(d.uR), maxRadius)
    IN  [treePosition |-> <<RMul(r, Cos(theta)), RSub(y, RDiv(height, R(2))),
                            RMul(r, Sin(theta))>>,
         scatterPosition |-> ScatterPoint(R(15), d),
         rotation |-> <<RMul(d.uRotX, Pi), RMul(d.uRotY, Pi), Zero>>,
         scale |-> randomRange(<<1, 2>>, <<3, 2>>, d.uScale)]

\* one iteration of generateTreePositions' loop: the record it pushes
TreeEntry(height, maxRadius, d) ==
    LET y == RMul(Pow15(d.uY), height)
        radiusAtY == RMul(maxRadius, RSub(One, RDiv(y, height)))
        theta == d.theta
        r == RMul(Sqrt(d.uR), radiusAtY)
        treeX == RMul(r, Cos(theta))
        treeZ == RMul(r, Sin(theta))
        treeY == RSub(y, RDiv(height, R(2)))
    IN  [treePosition |-> <<treeX, treeY, treeZ>>,
         scatterPosition |-> ScatterPoint(R(15), d),
         rotation |-> <<RMul(d.uRotX, Pi), RMul(d.uRotY, Pi), Zero>>,
         scale |-> randomRange(<<1, 2>>, <<3, 2>>, d.uScale)]

\* TreeLoop running while i <= count
RECURSIVE TreeLoopInclusive(_, _, _, _, _, _)
TreeLoopInclusive(i, count, height, maxRadius, rand, positions) ==
    IF i <= count
    THEN TreeLoopInclusive(i + 1, count, height, maxRadius, rand,
                  Append(positions, TreeEntry(height, maxRadius, Draw(rand, i, TreeSpare))))
    ELSE positions

RECURSIVE TreeLoop(_, _, _, _, _, _)
TreeLoop(i, count, height, maxRadius, rand, positions) ==
    IF i < count
    THEN TreeLoop(i + 1, count, height, maxRadius, rand,
                  Append(positions, TreeEntry(height, maxRadius, Draw(rand, i, TreeSpare))))
    ELSE positions

generateTreePositions(count, height, maxRadius, rand) ==
    TreeLoop(0, count, height, maxRadius, rand, <<>>)

\* the draws of one iteration of generatePilePositions
PileFormDraws ==
    [angle : {A(3, 4, 5)}, uR : SquareDraws, uH : LinearDraws \ {Zero}]
    \cup {[angle |-> A(-4, -3, 5), uR |-> <<81, 100>>, uH |-> Zero]}

PileFormSpare == [angle |-> A(0, 1, 1), uR |-> <<1, 4>>, uH |-> <<1, 2>>]

PileDraw(f, sc, ry, us) ==
    [angle |-> f.angle, uR |-> f.uR, uH |-> f.uH,
     thetaS |-> sc.thetaS, v |-> sc.v, uS |-> sc.uS,
     uRotY |-> ry, uScale |-> us]

PileSpare == PileDraw(PileFormSpare, ScatterSpare, <<1, 2>>, <<1, 2>>)

PileDraws ==
    {PileDraw(f, ScatterSpare, Zero, <<19, 20>>) : f \in PileFormDraws}
    \cup {PileDraw(PileFormSpare, sc, <<19, 20>>, Zero) : sc \in ScatterDraws}

\* PileEntry with a pile as high at the rim as at the centre
PileEntryFlatTop(radius, floorY, d) ==
    LET angle == d.angle
        r == RMul(Sqrt(d.uR), radius)
    IN  [treePosition |-> <<RMul(Cos(angle), r),
                            RAdd(floorY, RMul(d.uH, <<5, 2>>)),
                            RMul(Sin(angle), r)>>,
         scatterPosition |-> ScatterPoint(R(18), d),
         rotation |-> <<Zero, RMul(RMul(d.uRotY, Pi), R(2)), Zero>>,
         scale |-> randomRange(<<4, 5>>, <<6, 5>>, d.uScale)]

\* one iteration of generatePilePositions' loop: the record it pushes
PileEntry(radius, floorY, d) ==
    LET angle == d.angle
        r == RMul(Sqrt(d.uR), radius)
        x == RMul(Cos(angle), r)
        z == RMul(Sin(angle), r)
        pileHeight == RMax(Zero, RMul(RSub(One, RDiv(r, radius)), <<5, 2>>))
        y == RAdd(floorY, RMul(d.uH, pileHeight))
    IN  [treePosition |-> <<x, y, z>>,
         scatterPosition |-> ScatterPoint(R(18), d),
         rotation |-> <<Zero, RMul(RMul(d.uRotY, Pi), R(2)), Zero>>,
         scale |-> randomRange(<<4, 5>>, <<6, 5>>, d.uScale)]

RECURSIVE PileLoop(_, _, _, _, _, _)
PileLoop(i, count, radius, floorY, rand, positions) ==
    IF i < count
    THEN PileLoop(i + 1, count, radius, floorY, rand,
                  Append(positions, PileEntry(radius, floorY, Draw(rand, i, PileSpare))))
    ELSE positions

generatePilePositions(count, radius, floorY, rand) ==
    PileLoop(0, count, radius, floorY, rand, <<>>)

\* THREE.Color of a hex colour: its r, g, b channels as fractions of 255
Color(r, g, b) == <<Rat(r, 255), Rat(g, 255), Rat(b, 255)>>

\* new Float32Array(n): n zeros
Float32Array(n) == [j \in 1..n |-> Zero]

\* buf[k] = x, k counted from 0; a write outside a typed array is dropped
SetAt(buf, k, x) == IF k + 1 \in DOMAIN buf THEN [buf EXCEPT ![k + 1] = x] ELSE buf

\* the draws of one iteration of generateAttributeBuffers
BufferDraws ==
    [uY : FifthDraws, uNoise : LinearDraws \ {<<1, 2>>},
     uRadius : LinearDraws \ {<<1, 2>>},
     angle : {A(0, 1, 1)}, uSx : {<<19, 20>>}, uSy : {Zero}, uSz : {<<1, 2>>},
     uGold : {<<19, 20>>}, uColor : {Zero}, uSize : {<<1, 2>>}]
    \cup
    [uY : {<<1, 32>>}, uNoise : {<<1, 2>>}, uRadius : {<<1, 2>>},
     angle : {A(-4, -3, 5)}, uSx : {Zero}, uSy : {<<1, 2>>}, uSz : {<<19, 20>>},
     uGold : {<<1, 2>>}, uColor : {<<1, 2>>, <<19, 20>>}, uSize : {Zero, <<19, 20>>}]

BufferSpare ==
    [uY |-> Zero, uNoise |-> <<1, 2>>, uRadius |-> <<1, 2>>, angle |-> A(3, 4, 5),
     uSx |-> <<1, 2>>, uSy |-> <<1, 2>>, uSz |-> <<1, 2>>,
     uGold |-> Zero, uColor |-> Zero, uSize |-> <<1, 2>>]

\* branchNoise with the full width of the draw
branchNoiseWide(u) == RSub(u, <<1, 2>>)

\* branchNoise = (Math.random() - 0.5) * 0.5
branchNoise(u) == RMul(RSub(u, <<1, 2>>), <<1, 2>>)

\* the four buffers after iteration i's writes
BufferWrite(b, i, height, maxRadius, d) ==
    LET i3 == i * 3
        color1 == Color(4, 57, 39)
        color2 == Color(15, 89, 64)
        colorGold == Color(255, 215, 0)
        yNormal == Pow12(d.uY)
        y == RMul(yNormal, height)
        rAtY == RMul(maxRadius, RSub(One, RDiv(y, height)))
        radius == RAdd(RMul(d.uRadius, rAtY), branchNoise(d.uNoise))
        angle == d.angle
        sr == R(25)
        isGoldTip == RLt(<<23, 25>>, d.uGold)
        c == IF isGoldTip THEN colorGold
             ELSE IF RLt(<<1, 2>>, d.uColor) THEN color1 ELSE color2
        size == IF isGoldTip
                THEN randomRange(<<2, 5>>, <<4, 5>>, d.uSize)
                ELSE randomRange(<<1, 10>>, <<1, 2>>, d.uSize)
    IN  [treePositions |->
            SetAt(SetAt(SetAt(b.treePositions,
                i3, RMul(Cos(angle), radius)),
                i3 + 1, RSub(y, RDiv(height, R(2)))),
                i3 + 2, RMul(Sin(angle), radius)),
         scatterPositions |->
            SetAt(SetAt(SetAt(b.scatterPositions,
                i3, RMul(RSub(d.uSx, <<1, 2>>), sr)),
                i3 + 1, RMul(RSub(d.uSy, <<1, 2>>), sr)),
                i3 + 2, RMul(RSub(d.uSz, <<1, 2>>), sr)),
         colors |->
            SetAt(SetAt(SetAt(b.colors, i3, c[1]), i3 + 1, c[2]), i3 + 2, c[3]),
         sizes |-> SetAt(b.sizes, i, size)]

RECURSIVE BufferLoop(_, _, _, _, _, _)
BufferLoop(i, count, height, maxRadius, rand, b) ==
    IF i < count
    THEN BufferLoop(i + 1, count, height, maxRadius, rand,
                    BufferWrite(b, i, height, maxRadius, Draw(rand, i, BufferSpare)))
    ELSE b

generateAttributeBuffers(count, height, maxRadius, rand) ==
    BufferLoop(0, count, height, maxRadius, rand,
               [treePositions |-> Float32Array(count * 3),
                scatterPositions |-> Float32Array(count * 3),
                colors |-> Float32Array(count * 3),
                sizes |-> Float32Array(count)])

\* Polaroids: the angle i * 2.4 of slot i, i = 0..19, as the rational point
\* of the unit circle nearest to (cos(2.4 i), sin(2.4 i))
SlotAngle ==
    <<A(1, 0, 1), A(-21, 20, 29), A(0, -1, 1), A(3, 4, 5), A(-24, -7, 25),
      A(45, -28, 53), A(-7, 24, 25), A(-8, -15, 17), A(35, 12, 37), A(-12, 5, 13),
      A(5, -12, 13), A(7, 24, 25), A(-45, -28, 53), A(24, -7, 25), A(-3, 4, 5),
      A(-11, -60, 61), A(4, 3, 5), A(-1, 0, 1), A(21, -20, 29), A(0, 1, 1)>>

\* the draws of one iteration of the slots loop
SlotDraw(sc, rx, ry) ==
    [thetaS |-> sc.thetaS, v |-> sc.v, uS |-> sc.uS, uRotX |-> rx, uRotY |-> ry]

SlotSpare == SlotDraw(ScatterSpare, <<1, 2>>, <<1, 2>>)

\* one iteration of the slots loop: the record it pushes
SlotEntry(i, count, height, maxRadius, d) ==
    LET yRel == Rat(i, count)
        y == RSub(R(5), RMul(yRel, R(10)))
        r == RAdd(RMul(maxRadius,
                       RSub(One, RDiv(RAdd(y, <<11, 2>>), height))), <<1, 2>>)
        angle == SlotAngle[i + 1]
        x == RMul(Cos(angle), r)
        z == RMul(Sin(angle), r)
    IN  [treePosition |-> <<x, y, z>>,
         scatterPosition |-> ScatterPoint(R(18), d),
         rotation |-> <<RMul(d.uRotX, Pi), RMul(d.uRotY, Pi), Zero>>,
         scale |-> One]

RECURSIVE SlotLoop(_, _, _, _, _, _)
SlotLoop(i, count, height, maxRadius, rand, arr) ==
    IF i < count
    THEN SlotLoop(i + 1, count, height, maxRadius, rand,
                  Append(arr, SlotEntry(i, count, height, maxRadius, Draw(rand, i, SlotSpare))))
    ELSE arr

\* Polaroids' slots: count = 20, height = 11, maxRadius = 4
slots(rand) == SlotLoop(0, 20, R(11), R(4), rand, <<>>)

-----------------------------------------------------------------------------
(* The position ease of the CPU updaters *)

\* ease with the upper branch -1 + (4 - t) * t
easeSingle(t) ==
    IF RLt(t, <<1, 2>>)
    THEN RMul(R(2), RMul(t, t))
    ELSE RAdd(R(-1), RMul(RSub(R(4), t), t))

\* t < 0.5 ? 2 * t * t : -1 + (4 - 2 * t) * t
ease(t) ==
    IF RLt(t, <<1, 2>>)
    THEN RMul(R(2), RMul(t, t))
    ELSE RAdd(R(-1), RMul(RSub(R(4), RMul(R(2), t)), t))

-----------------------------------------------------------------------------
(* The per-frame handlers (useFrame callbacks) *)

\* userData.progress before the first frame has written it
Undefined == <<0, 0>>

\* x ?? d
Nullish(x, d) == IF x = Undefined THEN d ELSE x

\* treeState === TreeState.TREE_SHAPE ? 1 : 0
targetProgress(ts) == IF ts = "TREE_SHAPE" THEN One ELSE Zero

\* Blend by twice the raw progress
BlendUneased(item, t) ==
    lerp3(item.scatterPosition, item.treePosition, RMul(R(2), t))

\* the position blend of Ornaments, Gift and PolaroidFrame:
\* lerp(scatterPosition[c], treePosition[c], ease) for c = x, y, z
Blend(item, t) ==
    LET e == Quantize(ease(t))
    IN  lerp3(item.scatterPosition, item.treePosition, e)

\* OrnamentsProgress restarting from the far end of the new target
OrnamentsProgressRestart(cur, ts, delta) ==
    Quantize(lerp(RSub(One, targetProgress(ts)), targetProgress(ts), RMul(<<5, 2>>, delta)))

\* Ornaments: newProgress = lerp(currentProgress, targetProgress, 2.5 * delta)
OrnamentsProgress(cur, ts, delta) ==
    Quantize(lerp(Nullish(cur, Zero), targetProgress(ts), RMul(<<5, 2>>, delta)))

\* Ornaments: the position of every instance, set from one shared progress
OrnamentsPositions(items, t) == [i \in DOMAIN items |-> Blend(items[i], t)]

\* GiftProgress at rate 0.5
GiftProgressSlow(cur, ts, delta) ==
    Quantize(lerp(Nullish(cur, Zero), targetProgress(ts), RMul(<<1, 2>>, delta)))

\* Gift: newProgress = lerp(currentProgress, targetProgress, 2.0 * delta)
GiftProgress(cur, ts, delta) ==
    Quantize(lerp(Nullish(cur, Zero), targetProgress(ts), RMul(R(2), delta)))

GiftPosition(gift, t) == Blend(gift, t)

\* PolaroidFrame: progress = lerp(currentProgress, targetProgress, delta * 2)
PolaroidProgress(cur, ts, delta) ==
    Quantize(lerp(Nullish(cur, Zero), targetProgress(ts), RMul(delta, R(2))))

PolaroidPosition(slot, t) == Blend(slot, t)

\* StarProgress that never moves
StarProgressStalled(cur, ts, delta) == Nullish(cur, Zero)

\* Star: progress = lerp(currentProgress, targetProgress, delta * 1.5)
StarProgress(cur, ts, delta) ==
    Quantize(lerp(Nullish(cur, Zero), targetProgress(ts), RMul(delta, <<3, 2>>)))

\* Star's treePos
treePos == <<Zero, <<25, 4>>, Zero>>

\* Vector3.lerpVectors(v1, v2, alpha) = v1 + (v2 - v1) * alpha
lerpVectors(v1, v2, alpha) ==
    [c \in 1..3 |-> RAdd(v1[c], RMul(RSub(v2[c], v1[c]), alpha))]

\* Star: lerpVectors(scatterPos, treePos, ease), and from progress 0.9 on
\* position.y = treePos.y + Math.sin(time * 2) * 0.1; sin2t is that sine
StarPosition(scatterPos, t, sin2t) ==
    LET e == Quantize(ease(t))
        p == lerpVectors(scatterPos, treePos, e)
    IN  IF RLt(t, <<9, 10>>)
        THEN p
        ELSE <<p[1], RAdd(treePos[2], RMul(sin2t, <<1, 10>>)), p[3]>>

\* Foliage: uProgress.value = lerp(uProgress.value, target, 0.03)
FoliageProgress(cur, ts) == Quantize(lerp(cur, targetProgress(ts), <<3, 100>>))

\* a rotation every later frame reads back, kept to the grid
Damp(cur, to, k) == Quantize(lerp(cur, to, k))

\* Ornaments: the rotation of one instance: base rotation plus the float
\* below 0.9, the base rotation from 0.9 on
OrnamentsRotation(item, t, now) ==
    IF RLt(t, <<9, 10>>)
    THEN <<RAdd(item.rotation[1], RMul(now, <<1, 10>>)),
           RAdd(item.rotation[2], RMul(now, <<1, 10>>)),
           item.rotation[3]>>
    ELSE item.rotation

OrnamentsRotations(items, t, now) ==
    [i \in DOMAIN items |-> OrnamentsRotation(items[i], t, now)]

\* GiftRotation choosing the regime by the eased progress
GiftRotationEased(gift, cur, t, delta, now) ==
    IF RLt(ease(t), <<4, 5>>)
    THEN <<RAdd(gift.rotation[1], RMul(now, <<1, 2>>)),
           RAdd(gift.rotation[2], RMul(now, <<3, 10>>)),
           RAdd(gift.rotation[3], RMul(now, <<1, 5>>))>>
    ELSE <<Damp(cur[1], Zero, RMul(delta, R(5))),
           gift.rotation[2],
           Damp(cur[3], Zero, RMul(delta, R(5)))>>

\* Gift: tumbling below 0.8; from 0.8 on x and z damped to 0 at 5 * delta
\* and y set to the base rotation
GiftRotation(gift, cur, t, delta, now) ==
    IF RLt(t, <<4, 5>>)
    THEN <<RAdd(gift.rotation[1], RMul(now, <<1, 2>>)),
           RAdd(gift.rotation[2], RMul(now, <<3, 10>>)),
           RAdd(gift.rotation[3], RMul(now, <<1, 5>>))>>
    ELSE <<Damp(cur[1], Zero, RMul(delta, R(5))),
           gift.rotation[2],
           Damp(cur[3], Zero, RMul(delta, R(5)))>>

\* Star: x and z advance below 0.9; from 0.9 on they are damped to 0 at
\* 3 * delta while y spins
StarRotation(cur, t, delta) ==
    IF RLt(t, <<9, 10>>)
    THEN <<RAdd(cur[1], RMul(delta, <<1, 2>>)),
           cur[2],
           RAdd(cur[3], RMul(delta, <<3, 10>>))>>
    ELSE <<Damp(cur[1], Zero, RMul(delta, R(3))),
           RAdd(cur[2], RMul(delta, <<1, 2>>)),
           Damp(cur[3], Zero, RMul(delta, R(3)))>>

\* PolaroidFrame: above 0.8 damped to targetRotation at 4 * delta, with the
\* wind sway added to z; otherwise turned towards the camera: `facing` is
\* the orientation quaternion.slerp(dummy.quaternion, delta * 4) leaves
PolaroidRotation(cur, targetRotation, t, delta, wind, facing) ==
    IF RLt(<<4, 5>>, t)
    THEN <<Damp(cur[1], targetRotation[1], RMul(delta, R(4))),
           Damp(cur[2], targetRotation[2], RMul(delta, R(4))),
           RAdd(Damp(cur[3], targetRotation[3], RMul(delta, R(4))),
                RMul(wind, <<1, 20>>))>>
    ELSE facing

\* OrnamentsScale shrinking towards the tree
OrnamentsScaleShrinking(base, t) ==
    RMul(base, RSub(One, RMul(<<1, 5>>, ease(t))))

\* Ornaments: s = scale * scaleFactor * (0.8 + 0.2 * ease); base is
\* scale * scaleFactor, t the new progress
OrnamentsScale(base, t) ==
    RMul(base, RAdd(<<4, 5>>, RMul(<<1, 5>>, ease(t))))

\* Star: lerp(0.5, 1.4, ease) below 0.9, 1.4 from 0.9 on
StarScale(t) ==
    IF RLt(t, <<9, 10>>) THEN lerp(<<1, 2>>, <<7, 5>>, ease(t)) ELSE <<7, 5>>

\* Gift: scale.setScalar(scale)
GiftScale(base, t) == base

\* PolaroidFrame: finalScale, the value scale is damped to at delta * 5:
\* lerp(2.5, 1.0, ease), times 1.1 while hovered
PolaroidScale(hovered, t) ==
    LET stateScale == lerp(<<5, 2>>, One, ease(t))
    IN  IF hovered THEN RMul(stateScale, <<11, 10>>) ELSE stateScale

\* targetRotY without the factor 0.5
targetRotYUnscaled(hand) == IF hand.isActive THEN RNeg(hand.x) ELSE Zero

\* CameraRig: the rotation targets derived from the hand
targetRotY(hand) == IF hand.isActive THEN RMul(RNeg(hand.x), <<1, 2>>) ELSE Zero

targetRotX(hand) == IF hand.isActive THEN RMul(hand.y, <<3, 10>>) ELSE Zero

\* CameraRig useFrame: rotation.y and rotation.x damped at delta * 2
CameraRigRotation(cur, hand, delta) ==
    [x |-> Damp(cur.x, targetRotX(hand), RMul(delta, R(2))),
     y |-> Damp(cur.y, targetRotY(hand), RMul(delta, R(2)))]

-----------------------------------------------------------------------------
(* The scene at mount: the endpoint tables the components memoise *)

\* Star's scatterPos: a point of the sphere of radius 20
StarScatter(d) ==
    LET r == R(20)
        theta == d.theta
        phi == Acos(RSub(RMul(R(2), d.v), One))
    IN  <<RMul(RMul(r, Sin(phi)), Cos(theta)),
          RMul(RMul(r, Sin(phi)), Sin(theta)),
          RMul(r, Cos(phi))>>

\* Presents: one raw pile position made a gift; d holds the draws of w, h, d
GiftData(pos, i, d) ==
    LET w == RAdd(<<2, 5>>, RMul(d.uW, <<2, 5>>))
        h == RAdd(<<3, 10>>, RMul(d.uH, <<2, 5>>))
        dd == RAdd(<<2, 5>>, RMul(d.uD, <<2, 5>>))
    IN  [treePosition |-> <<pos.treePosition[1],
                            RAdd(pos.treePosition[2], RDiv(h, R(2))),
                            pos.treePosition[3]>>,
         scatterPosition |-> pos.scatterPosition,
         rotation |-> pos.rotation,
         scale |-> pos.scale,
         id |-> i,
         size |-> <<w, h, dd>>]

\* the draws a scene's generators take, cycled from `seed` on
SceneTreeSamples ==
    <<TreeDraw([uY |-> <<1, 4>>, theta |-> A(3, 4, 5), uR |-> <<1, 4>>],
               [thetaS |-> A(3, 4, 5), v |-> <<1, 10>>, uS |-> <<1, 8>>],
               <<1, 2>>, Zero, <<1, 2>>),
      TreeDraw([uY |-> Zero, theta |-> A(-4, -3, 5), uR |-> <<1, 4>>],
               [thetaS |-> A(-4, -3, 5), v |-> <<9, 10>>, uS |-> <<1, 8>>],
               Zero, <<1, 2>>, Zero),
      TreeDraw([uY |-> <<1, 4>>, theta |-> A(0, 1, 1), uR |-> Zero],
               [thetaS |-> A(0, 1, 1), v |-> <<1, 2>>, uS |-> <<1, 8>>],
               <<1, 2>>, <<1, 2>>, <<19, 20>>)>>

ScenePileSamples ==
    <<PileDraw([angle |-> A(3, 4, 5), uR |-> <<1, 4>>, uH |-> <<1, 2>>],
               [thetaS |-> A(-4, -3, 5), v |-> <<1, 10>>, uS |-> <<1, 8>>],
               <<1, 2>>, <<1, 2>>),
      PileDraw([angle |-> A(0, 1, 1), uR |-> Zero, uH |-> <<1, 2>>],
               [thetaS |-> A(3, 4, 5), v |-> <<1, 2>>, uS |-> <<1, 8>>],
               Zero, Zero)>>

SceneBufferSamples ==
    <<BufferSpare,
      [BufferSpare EXCEPT !.uY = <<1, 32>>, !.uNoise = <<19, 20>>, !.uGold = <<19, 20>>]>>

SceneGiftSamples ==
    <<[uW |-> Zero, uH |-> <<1, 2>>, uD |-> <<1, 2>>],
      [uW |-> <<1, 2>>, uH |-> Zero, uD |-> <<19, 20>>]>>

SceneStarSamples ==
    <<[theta |-> A(3, 4, 5), v |-> <<1, 10>>],
      [theta |-> A(0, 1, 1), v |-> <<1, 2>>]>>

\* the scatter draws the slots loop cycles through
SlotSamples ==
    <<[thetaS |-> A(3, 4, 5), v |-> <<1, 10>>, uS |-> <<729, 1000>>],
      [thetaS |-> A(1, 0, 1), v |-> Zero, uS |-> <<1, 8>>],
      [thetaS |-> A(-4, -3, 5), v |-> <<9, 10>>, uS |-> <<729, 1000>>],
      [thetaS |-> A(0, 1, 1), v |-> <<1, 2>>, uS |-> Zero],
      [thetaS |-> A(3, 4, 5), v |-> <<1, 2>>, uS |-> <<729, 1000>>]>>

\* the draws of the 20 iterations of the slots loop, from sample `seed` on
SlotRand(seed) ==
    [i \in 1..20 |->
        SlotDraw(SlotSamples[((i + seed) % Len(SlotSamples)) + 1],
                 Rat(i % 2, 2), Rat((i + seed) % 3, 3))]

\* PolaroidFrame's targetRotation: facing out from the pole, with the two
\* random tilts of up to 0.1
SceneTargetSamples ==
    <<<<<<1, 20>>, <<11, 10>>, <<-1, 20>>>>,
      <<<<-1, 10>>, R(-2), <<1, 10>>>>,
      <<Zero, <<5, 2>>, <<1, 25>>>>>>

Pick(samples, k) == samples[(k % Len(samples)) + 1]

Cycle(samples, seed, n) == [i \in 1..n |-> Pick(samples, seed + i)]

\* the populations of the scene: 100000 particles, Ornaments of 300, 150 and
\* 500 instances and 80 gifts, scaled down
SceneCounts == [foliage |-> 2, ornaments |-> <<2, 1, 1>>, gifts |-> 2]

\* what the components' useMemo callbacks return at mount: Foliage's
\* buffers, Star's scatterPos, the three Ornaments populations (the scene's
\* counts of 300, 150 and 500, 100000 particles and 80 gifts scaled down),
\* Presents' gifts and Polaroids' slots
SceneData(seed) ==
    LET raw == generatePilePositions(SceneCounts.gifts, R(6), R(-6),
                                     Cycle(ScenePileSamples, seed, SceneCounts.gifts))
    IN  [foliage |-> generateAttributeBuffers(SceneCounts.foliage, R(12), <<9, 2>>,
                                              Cycle(SceneBufferSamples, seed,
                                                    SceneCounts.foliage)),
         starScatter |-> StarScatter(Pick(SceneStarSamples, seed)),
         ornaments |->
            [p \in 1..3 |->
                generateTreePositions(SceneCounts.ornaments[p], R(11), R(4),
                                      Cycle(SceneTreeSamples, seed + p - 1,
                                            SceneCounts.ornaments[p]))],
         gifts |-> [i \in 1..Len(raw) |->
                        GiftData(raw[i], i - 1, Pick(SceneGiftSamples, seed + i))],
         slots |-> slots(SlotRand(seed)),
         targets |-> [i \in 1..20 |-> Pick(SceneTargetSamples, seed + i)]]

\* App's initial handPosition, and what predictWebcam publishes without a hand
NoHand == [x |-> Zero, y |-> Zero, isActive |-> FALSE]

\* SceneProps with the Star left on the treeState of the mount
ScenePropsStaleStar(ts, hand, urls, gifts) ==
    [rig |-> [handPosition |-> hand],
     orbit |-> [autoRotate |-> (ts = "TREE_SHAPE" /\ ~hand.isActive)],
     foliage |-> [treeState |-> ts],
     star |-> [treeState |-> "TREE_SHAPE"],
     ornaments |-> [p \in 1..3 |-> [treeState |-> ts]],
     gifts |-> [i \in 1..gifts |-> [treeState |-> ts]],
     frames |-> [i \in 1..Len(urls) |->
                    [url |-> urls[i], index |-> i - 1, treeState |-> ts]]]

\* SceneProps with the Star scattered while a hand is in view
ScenePropsHandStar(ts, hand, urls, gifts) ==
    [rig |-> [handPosition |-> hand],
     orbit |-> [autoRotate |-> (ts = "TREE_SHAPE" /\ ~hand.isActive)],
     foliage |-> [treeState |-> ts],
     star |-> [treeState |-> IF hand.isActive THEN "SCATTERED" ELSE ts],
     ornaments |-> [p \in 1..3 |-> [treeState |-> ts]],
     gifts |-> [i \in 1..gifts |-> [treeState |-> ts]],
     frames |-> [i \in 1..Len(urls) |->
                    [url |-> urls[i], index |-> i - 1, treeState |-> ts]]]

\* the props Scene, ResponsiveTreeWrapper, Presents and Polaroids hand down
\* in one render of the canvas tree: treeState to every animated component,
\* handPosition to the CameraRig, the auto-rotate flag to OrbitControls
SceneProps(ts, hand, urls, gifts) ==
    [rig |-> [handPosition |-> hand],
     orbit |-> [autoRotate |-> (ts = "TREE_SHAPE" /\ ~hand.isActive)],
     foliage |-> [treeState |-> ts],
     star |-> [treeState |-> ts],
     ornaments |-> [p \in 1..3 |-> [treeState |-> ts]],
     gifts |-> [i \in 1..gifts |-> [treeState |-> ts]],
     frames |-> [i \in 1..Len(urls) |->
                    [url |-> urls[i], index |-> i - 1, treeState |-> ts]]]

-----------------------------------------------------------------------------
(* Pure functions, applied to inputs drawn at Init *)

Seqs(S, n) == [1..n -> S]

Call(fn, count, p1, p2, rand) ==
    [fn |-> fn, count |-> count, p1 |-> p1, p2 |-> p2, rand |-> rand]

\* (height, maxRadius): Ornaments' call, and a squat cone
TreeParams == {<<R(11), R(4)>>, <<R(2), R(8)>>}
\* (radius, floorY): Presents' call, and a small pile on the origin plane
PileParams == {<<R(6), R(-6)>>, <<R(2), Zero>>}
\* (height, maxRadius): Foliage's call, and a thin cone
BufferParams == {<<R(12), <<9, 2>>>>, <<R(2), One>>}

TreeCalls ==
    UNION {{Call("generateTreePositions", n, p[1], p[2], rand) :
                p \in TreeParams, rand \in Seqs(TreeDraws, n)} : n \in 0..MaxCount}

PileCalls ==
    UNION {{Call("generatePilePositions", n, p[1], p[2], rand) :
                p \in PileParams, rand \in Seqs(PileDraws, n)} : n \in 0..MaxCount}

BufferCalls ==
    UNION {{Call("generateAttributeBuffers", n, p[1], p[2], rand) :
                p \in BufferParams, rand \in Seqs(BufferDraws, n)} : n \in 0..MaxCount}

SlotCalls ==
    {Call("slots", 20, R(11), R(4), SlotRand(seed)) : seed \in 0..(Len(SlotSamples) - 1)}

EaseCalls ==
    {Call("ease", 0, Rat(n, Resolution), Zero, <<>>) : n \in 0..Resolution}

\* the state of the scene while only a pure function is applied
InitIdle ==
    /\ treeState = "TREE_SHAPE"
    /\ handPosition = NoHand
    /\ photos = <<>>
    /\ nextUrl = 1
    /\ props = <<>>
    /\ data = <<>>
    /\ progress = <<>>
    /\ position = <<>>
    /\ rotation = <<>>
    /\ rig = <<>>
    /\ time = Zero
    /\ frames = 0
    /\ twin = <<>>

sceneVars == <<appVars, canvasVars, scn, twin>>

InitFn ==
    /\ InitIdle
    /\ scn = <<>>
    /\ call \in TreeCalls \cup PileCalls \cup BufferCalls \cup SlotCalls \cup EaseCalls
    /\ ret = <<>>
    /\ pc = "call"

Return(fn, value) ==
    /\ pc = "call"
    /\ call.fn = fn
    /\ ret' = value
    /\ pc' = "done"
    /\ UNCHANGED <<call, sceneVars>>

CallGenerateTreePositions ==
    Return("generateTreePositions",
           generateTreePositions(call.count, call.p1, call.p2, call.rand))

CallGeneratePilePositions ==
    Return("generatePilePositions",
           generatePilePositions(call.count, call.p1, call.p2, call.rand))

CallGenerateAttributeBuffers ==
    Return("generateAttributeBuffers",
           generateAttributeBuffers(call.count, call.p1, call.p2, call.rand))

CallSlots == Return("slots", slots(call.rand))

CallEase == Return("ease", ease(call.p1))

NextFn ==
    \/ CallGenerateTreePositions
    \/ CallGeneratePilePositions
    \/ CallGenerateAttributeBuffers
    \/ CallSlots
    \/ CallEase

SpecFn == InitFn /\ [][NextFn]_vars

Returned(fn) == pc = "done" /\ call.fn = fn

-----------------------------------------------------------------------------
(* The running scene: App's state, the render of the canvas tree, and the
   frame loop over every component *)

Vec0 == <<Zero, Zero, Zero>>

Other(ts) == IF ts = "TREE_SHAPE" THEN "SCATTERED" ELSE "TREE_SHAPE"

\* the seeds of the scenes a behaviour can start from
Seeds == {0}

\* the per-entity tables of a canvas that has rendered no photo frame yet
Unmounted(each) ==
    [star |-> each,
     ornaments |-> [p \in 1..3 |-> [i \in 1..SceneCounts.ornaments[p] |-> each]],
     gifts |-> [i \in 1..SceneCounts.gifts |-> each],
     frames |-> <<>>]

\* the state after mount: App's useState initial values, the memoised
\* tables, uProgress 0, no userData.progress yet, every object at the origin
\* and unrotated, the clock at 0
InitScene ==
    /\ treeState = "TREE_SHAPE"
    /\ handPosition = NoHand
    /\ photos = <<>>
    /\ nextUrl = 1
    /\ props = SceneProps("TREE_SHAPE", NoHand, <<>>, SceneCounts.gifts)
    /\ \E seed \in Seeds : data = SceneData(seed)
    /\ progress = [foliage |-> Zero,
                   star |-> Undefined,
                   ornaments |-> [p \in 1..3 |-> Undefined],
                   gifts |-> [i \in 1..SceneCounts.gifts |-> Undefined],
                   frames |-> <<>>]
    /\ position = Unmounted(Vec0)
    /\ rotation = Unmounted(Vec0)
    /\ rig = [x |-> Zero, y |-> Zero]
    /\ time = Zero
    /\ frames = 0
    /\ call = <<>>
    /\ ret = <<>>
    /\ pc = "scene"
    /\ scn = <<>>

Init == InitScene /\ twin = <<>>

\* Overlay's state toggle button
ToggleApp ==
    /\ pc = "scene"
    /\ treeState' = Other(treeState)
    /\ UNCHANGED <<handPosition, photos, nextUrl, canvasVars, fnVars, scn>>

Toggle == ToggleApp /\ UNCHANGED twin

\* what recognizeForVideo returned for one video frame: the top gesture (or
\* none), the wrist landmark (or none), or an exception
NoGesture == [gestures |-> <<>>, landmarks |-> <<>>, threw |-> FALSE]

\* HandOf without the recentring by 0.5
HandOfUncentred(wrist) ==
    [x |-> RMul(wrist.x, R(2)),
     y |-> RNeg(RMul(wrist.y, R(2))),
     isActive |-> TRUE]

\* the HandPosition of a wrist landmark
HandOf(wrist) ==
    [x |-> RMul(RSub(wrist.x, <<1, 2>>), R(2)),
     y |-> RNeg(RMul(RSub(wrist.y, <<1, 2>>), R(2))),
     isActive |-> TRUE]

\* Recognise with a fist or an open palm flipping the state it finds
RecogniseFlipping(results) ==
    IF results.threw
    THEN UNCHANGED <<treeState, handPosition>>
    ELSE /\ treeState' =
             IF /\ Len(results.gestures) > 0
                /\ RLt(<<1, 2>>, results.gestures[1].score)
                /\ results.gestures[1].categoryName \in {"Closed_Fist", "Open_Palm"}
             THEN IF treeState = "TREE_SHAPE" THEN "SCATTERED" ELSE "TREE_SHAPE"
             ELSE treeState
         /\ handPosition' =
             IF Len(results.landmarks) > 0
             THEN [x |-> RMul(RSub(results.landmarks[1].x, <<1, 2>>), R(2)),
                   y |-> RNeg(RMul(RSub(results.landmarks[1].y, <<1, 2>>), R(2))),
                   isActive |-> TRUE]
             ELSE NoHand

\* the try block of predictWebcam on a new video frame: the state switching
\* and the hand position, or neither when recognizeForVideo threw
Recognise(results) ==
    IF results.threw
    THEN UNCHANGED <<treeState, handPosition>>
    ELSE /\ treeState' =
             IF Len(results.gestures) > 0 /\ RLt(<<1, 2>>, results.gestures[1].score)
             THEN IF results.gestures[1].categoryName = "Closed_Fist" THEN "TREE_SHAPE"
                  ELSE IF results.gestures[1].categoryName = "Open_Palm" THEN "SCATTERED"
                  ELSE treeState
             ELSE treeState
         /\ handPosition' =
             IF Len(results.landmarks) > 0 THEN HandOf(results.landmarks[1]) ELSE NoHand

\* predictWebcamApp with the score compared by >= 0.5
predictWebcamAtHalf(results) ==
    /\ pc = "scene"
    /\ IF results.threw
       THEN UNCHANGED <<treeState, handPosition>>
       ELSE /\ treeState' =
                IF Len(results.gestures) > 0 /\ RLe(<<1, 2>>, results.gestures[1].score)
                THEN IF results.gestures[1].categoryName = "Closed_Fist" THEN "TREE_SHAPE"
                     ELSE IF results.gestures[1].categoryName = "Open_Palm" THEN "SCATTERED"
                     ELSE treeState
                ELSE treeState
            /\ handPosition' =
                IF Len(results.landmarks) > 0
                THEN [x |-> RMul(RSub(results.landmarks[1].x, <<1, 2>>), R(2)),
                      y |-> RNeg(RMul(RSub(results.landmarks[1].y, <<1, 2>>), R(2))),
                      isActive |-> TRUE]
                ELSE NoHand
    /\ UNCHANGED <<photos, nextUrl, canvasVars, fnVars, scn>>

\* GestureController.predictWebcam on a new video frame: the state
\* switching and the hand position
predictWebcamApp(results) ==
    /\ pc = "scene"
    /\ Recognise(results)
    /\ UNCHANGED <<photos, nextUrl, canvasVars, fnVars, scn>>

predictWebcam(results) == predictWebcamApp(results) /\ UNCHANGED twin

Categories == {"Closed_Fist", "Open_Palm", "Victory"}
Scores == {<<2, 5>>, <<9, 10>>}

\* recognition results without a hand in view of the landmark model
Gestures ==
    {[gestures |-> <<[categoryName |-> c, score |-> sc]>>, landmarks |-> <<>>,
      threw |-> FALSE] : c \in Categories, sc \in Scores}
    \cup {NoGesture, [NoGesture EXCEPT !.threw = TRUE]}

\* the kinds of file an upload can hold: an image within 5MB, a file over
\* 5MB, and a small file that is not an image
FileKinds == {"image", "large", "other"}

\* the file lists a user picks
Batches == {<<"image">>, <<"large">>, <<"other", "image">>}

\* the forEach of handleUpload: newPhotos after the files from k on;
\* url is the next object URL
RECURSIVE UploadLoop(_, _, _, _)
UploadLoop(k, files, newPhotos, url) ==
    IF k > Len(files) THEN newPhotos
    ELSE IF Len(newPhotos) + Len(photos) >= 20 THEN UploadLoop(k + 1, files, newPhotos, url)
    ELSE IF files[k] = "large" THEN UploadLoop(k + 1, files, newPhotos, url)
    ELSE IF files[k] # "image" THEN UploadLoop(k + 1, files, newPhotos, url)
    ELSE UploadLoop(k + 1, files, Append(newPhotos, url), url + 1)

\* handleUpload taking every image, with neither the maxPhotos test of the
\* loop nor the slice
UploadUncapped(files) ==
    /\ pc = "scene"
    /\ LET images == SelectSeq(files, LAMBDA f : f = "image")
           newPhotos == [k \in 1..Len(images) |-> nextUrl + k - 1]
       IN  /\ photos' = photos \o newPhotos
           /\ nextUrl' = nextUrl + Len(newPhotos)
    /\ UNCHANGED <<treeState, handPosition, canvasVars, fnVars, scn, twin>>

\* Upload with the new photos put in front of the kept ones
UploadNewestFirst(files) ==
    /\ pc = "scene"
    /\ LET newPhotos == UploadLoop(1, files, <<>>, nextUrl)
           all == newPhotos \o photos
       IN  /\ photos' = SubSeq(all, 1, IF Len(all) < 20 THEN Len(all) ELSE 20)
           /\ nextUrl' = nextUrl + Len(newPhotos)
    /\ UNCHANGED <<treeState, handPosition, canvasVars, fnVars, scn, twin>>

\* App.handleUpload
Upload(files) ==
    /\ pc = "scene"
    /\ LET newPhotos == UploadLoop(1, files, <<>>, nextUrl)
           all == photos \o newPhotos
       IN  /\ photos' = SubSeq(all, 1, IF Len(all) < 20 THEN Len(all) ELSE 20)
           /\ nextUrl' = nextUrl + Len(newPhotos)
    /\ UNCHANGED <<treeState, handPosition, canvasVars, fnVars, scn, twin>>

\* Mount with every photo frame mounted anew
MountAnew(table, n, each) ==
    [table EXCEPT !.frames = [i \in 1..n |-> each]]

\* a per-frame table after the photo frames of a render are mounted: the
\* mounted ones keep their value, a new one starts from `each`
Mount(table, n, each) ==
    [table EXCEPT !.frames =
        [i \in 1..n |-> IF i <= Len(table.frames) THEN table.frames[i] ELSE each]]

\* Memo with the slots regenerated whenever the photos changed
MemoPerPhotos(tables, urls) ==
    [tables EXCEPT !.slots = slots(SlotRand(Len(urls)))]

\* the useMemo tables in a re-render: the dependencies ([count], [] and
\* [positionData.treePosition]) never change, so the cached value is kept
Memo(tables, urls) == tables

\* one render of the canvas tree with App's current state: every component
\* takes its new props in the same commit, and a PolaroidFrame is mounted
\* for every new photo
RenderApp ==
    /\ pc = "scene"
    /\ props' = SceneProps(treeState, handPosition, photos, Len(data.gifts))
    /\ props' # props
    /\ data' = Memo(data, photos)
    /\ progress' = Mount(progress, Len(photos), Undefined)
    /\ position' = Mount(position, Len(photos), Vec0)
    /\ rotation' = Mount(rotation, Len(photos), Vec0)
    /\ UNCHANGED <<appVars, rig, time, frames, fnVars, scn>>

Render == RenderApp /\ UNCHANGED twin

\* the frame times delta of one frame: a stalled clock, 60 Hz, and two
\* frames after the tab was in the background
Deltas == {Zero, <<1, 60>>, <<359, 1000>>, <<2, 3>>}

\* the values Math.sin(time * 2) takes at the frame's clock reading
Sines == {<<3, 5>>, R(-1)}

\* the frames a behaviour draws from: (delta, Math.sin(time * 2))
Ticks ==
    {<<Zero, <<3, 5>>>>, <<<<1, 60>>, R(-1)>>, <<<<359, 1000>>, <<3, 5>>>>, <<<<2, 3>>, R(-1)>>}

\* what a frame reads off the clock and the camera besides delta: sin2t is
\* Math.sin(time * 2), wind[i] is Math.sin(time * 1.5 + index) of photo
\* frame i, facing is the orientation towards the camera a scattered photo
\* frame is left with
Wave(sin2t) ==
    [sin2t |-> sin2t,
     wind |-> [i \in 1..20 |-> Pick(<<sin2t, <<4, 5>>, R(-1)>>, i)],
     facing |-> <<<<1, 5>>, <<7, 10>>, Zero>>]

\* the slot of the photo at index (from 0): slots[i % slots.length]
SlotIndex(index) == (index % 20) + 1

\* polaroid i (from 1) takes slots[(i - 1) % slots.length]
SlotOf(i) == data.slots[SlotIndex(i - 1)]

\* the progress every useFrame callback stores in one frame, each from the
\* treeState its component was rendered with
FrameProgress(pp, pr, delta) ==
    [foliage |-> FoliageProgress(pr.foliage, pp.foliage.treeState),
     star |-> StarProgress(pr.star, pp.star.treeState, delta),
     ornaments |-> [p \in 1..3 |->
                      OrnamentsProgress(pr.ornaments[p], pp.ornaments[p].treeState, delta)],
     gifts |-> [i \in DOMAIN pr.gifts |->
                  GiftProgress(pr.gifts[i], pp.gifts[i].treeState, delta)],
     frames |-> [i \in DOMAIN pr.frames |->
                   PolaroidProgress(pr.frames[i], pp.frames[i].treeState, delta)]]

\* the positions the callbacks set from the new progress pr
FramePosition(dat, pp, pr, wave) ==
    [star |-> StarPosition(dat.starScatter, pr.star, wave.sin2t),
     ornaments |-> [p \in 1..3 |-> OrnamentsPositions(dat.ornaments[p], pr.ornaments[p])],
     gifts |-> [i \in DOMAIN pr.gifts |-> GiftPosition(dat.gifts[i], pr.gifts[i])],
     frames |-> [i \in DOMAIN pr.frames |->
                   PolaroidPosition(dat.slots[SlotIndex(pp.frames[i].index)],
                                    pr.frames[i])]]

\* the rotations the callbacks set from the new progress pr at clock `now`
FrameRotation(dat, pp, rot, pr, delta, wave, now) ==
    [star |-> StarRotation(rot.star, pr.star, delta),
     ornaments |-> [p \in 1..3 |->
                      OrnamentsRotations(dat.ornaments[p], pr.ornaments[p], now)],
     gifts |-> [i \in DOMAIN pr.gifts |->
                  GiftRotation(dat.gifts[i], rot.gifts[i], pr.gifts[i], delta, now)],
     frames |-> [i \in DOMAIN pr.frames |->
                   PolaroidRotation(rot.frames[i],
                                    dat.targets[SlotIndex(pp.frames[i].index)],
                                    pr.frames[i], delta,
                                    wave.wind[SlotIndex(pp.frames[i].index)],
                                    wave.facing)]]

\* one frame: the clock advances by delta and every useFrame callback
\* (CameraRig, Foliage, Star, Ornaments, Gift, PolaroidFrame) runs once
FrameCanvas(delta, wave) ==
    /\ pc = "scene"
    /\ frames < MaxFrames
    /\ time' = RAdd(time, delta)
    /\ rig' = CameraRigRotation(rig, props.rig.handPosition, delta)
    /\ progress' = FrameProgress(props, progress, delta)
    /\ position' = FramePosition(data, props, progress', wave)
    /\ rotation' = FrameRotation(data, props, rotation, progress', delta, wave, time')
    /\ frames' = frames + 1
    /\ UNCHANGED <<appVars, props, data, fnVars, scn>>

Frame(delta, sin2t) == FrameCanvas(delta, Wave(sin2t)) /\ UNCHANGED twin

Next ==
    \/ Toggle
    \/ \E results \in Gestures : predictWebcam(results)
    \/ \E files \in Batches : nextUrl <= MaxUrls /\ Upload(files)
    \/ Render
    \/ \E tick \in Ticks : Frame(tick[1], tick[2])

Spec == Init /\ [][Next]_vars

-----------------------------------------------------------------------------
(* The scene beside a second canvas that is rendered with the same treeState
   and runs the same frames, but is never given a hand *)

\* the wrist landmarks of the hands in view: the corners of the image
Wrists == {[x |-> Zero, y |-> Zero], [x |-> One, y |-> One]}

\* recognition results with a hand in view: no gesture over the threshold,
\* a fist or an open palm
HandResults ==
    {[gestures |-> g, landmarks |-> <<w>>, threw |-> FALSE] :
        g \in {<<>>, <<[categoryName |-> "Closed_Fist", score |-> <<9, 10>>]>>,
               <<[categoryName |-> "Open_Palm", score |-> <<9, 10>>]>>},
        w \in Wrists}
    \cup {NoGesture}

\* the frames of these behaviours: (delta, Math.sin(time * 2))
HandTicks == {<<<<2, 5>>, <<3, 5>>>>}

InitHand ==
    /\ InitScene
    /\ twin = [props |-> props, progress |-> progress, position |-> position,
               rotation |-> rotation, rig |-> rig]

\* the render of both canvases: the second one with no hand
RenderHand ==
    /\ RenderApp
    /\ twin' = [props |-> SceneProps(treeState, NoHand, photos, Len(data.gifts)),
                progress |-> Mount(twin.progress, Len(photos), Undefined),
                position |-> Mount(twin.position, Len(photos), Vec0),
                rotation |-> Mount(twin.rotation, Len(photos), Vec0),
                rig |-> twin.rig]

\* the same frame on both canvases
FrameHand(delta, sin2t) ==
    /\ FrameCanvas(delta, Wave(sin2t))
    /\ LET pr == FrameProgress(twin.props, twin.progress, delta)
       IN  twin' = [props |-> twin.props,
                    progress |-> pr,
                    position |-> FramePosition(data, twin.props, pr, Wave(sin2t)),
                    rotation |-> FrameRotation(data, twin.props, twin.rotation, pr,
                                               delta, Wave(sin2t), time'),
                    rig |-> CameraRigRotation(twin.rig, twin.props.rig.handPosition,
                                              delta)]

NextHand ==
    \/ Toggle
    \/ \E results \in HandResults : predictWebcam(results)
    \/ RenderHand
    \/ \E tick \in HandTicks : FrameHand(tick[1], tick[2])

SpecHand == InitHand /\ [][NextHand]_vars

-----------------------------------------------------------------------------

(* Uploads up to and beyond the 20 photos the scene takes *)

\* n files of one kind
Files(kind, n) == [k \in 1..n |-> kind]

\* the file lists a user picks: a single image, files that are all
\* refused, a mixed list with 6 images, and 25 images at once
UploadBatches ==
    {<<"image">>,
     <<"large", "other">>,
     <<"image", "large">> \o Files("image", 3) \o <<"other">> \o Files("image", 2),
     Files("image", 25)}

NextUpload ==
    \/ \E files \in UploadBatches : Upload(files)
    \/ Render
    \/ Toggle

SpecUpload == Init /\ [][NextUpload]_vars

-----------------------------------------------------------------------------

(* The button and the gesture recognizer writing App's state *)

\* the top gesture's score: below, at and above the 0.5 of predictWebcam
GestureScores == {<<2, 5>>, <<1, 2>>, <<9, 10>>}

\* the wrist landmarks: the corners and the centre of the image
GestureWrists == Wrists \cup {[x |-> <<1, 2>>, y |-> <<1, 2>>]}

\* what recognizeForVideo can return for a video frame: any category at any
\* score or no gesture, with or without a hand landmark, or an exception
GestureResults ==
    {[gestures |-> g, landmarks |-> l, threw |-> FALSE] :
        g \in {<<>>} \cup {<<[categoryName |-> c, score |-> sc]>> :
                            c \in Categories, sc \in GestureScores},
        l \in {<<>>} \cup {<<w>> : w \in GestureWrists}}
    \cup {[NoGesture EXCEPT !.threw = TRUE]}

NextGesture ==
    \/ Toggle
    \/ \E results \in GestureResults : predictWebcam(results)
    \/ nextUrl <= MaxUrls /\ Upload(<<"image">>)
    \/ Render

SpecGesture == Init /\ [][NextGesture]_vars

-----------------------------------------------------------------------------

(* The prediction loop of GestureController: who starts it, and the         *)
(* animation frames it has outstanding                                      *)

\* what recognizeForVideo returns in the loop: with or without a hand
LoopResults == Gestures \cup HandResults

\* after the webcam effect ran with the recognizer loaded: the stream is set
\* on the video, which has no data yet; the readiness interval is running;
\* rafId.current is null (0) and no animation frame is requested
InitLoop ==
    /\ InitScene
    /\ twin = [readyState |-> 0, loadeddata |-> "none", checkReady |-> TRUE,
               rafId |-> 0, requested |-> {}, lastId |-> 0]

\* rafId.current = requestAnimationFrame(predictWebcam), by a call that ran
\* as the requested callbacks `ran`
Requested(loop, ran) ==
    [loop EXCEPT !.lastId = loop.lastId + 1,
                 !.rafId = loop.lastId + 1,
                 !.requested = (loop.requested \ ran) \cup {loop.lastId + 1}]

\* predictWebcam with video and recognizer set, run as the requested
\* callbacks `ran` with the loop state `loop`: a video with data and a new
\* currentTime (fresh) is recognised, and the next animation frame is
\* requested in every case
predictWebcamLoop(loop, ran, fresh, results) ==
    /\ pc = "scene"
    /\ loop.lastId < MaxRequests
    /\ IF loop.readyState >= 2 /\ fresh
       THEN Recognise(results)
       ELSE UNCHANGED <<treeState, handPosition>>
    /\ twin' = Requested(loop, ran)
    /\ UNCHANGED <<photos, nextUrl, canvasVars, fnVars, scn>>

\* the video element has its first frame: readyState HAVE_CURRENT_DATA, and
\* the loadeddata event is queued
VideoHasData ==
    /\ pc = "scene"
    /\ twin.readyState = 0
    /\ twin' = [twin EXCEPT !.readyState = 2, !.loadeddata = "queued"]
    /\ UNCHANGED <<appVars, canvasVars, fnVars, scn>>

\* onLoadedData: handleVideoLoad plays the video and calls predictWebcam
handleVideoLoad ==
    /\ twin.loadeddata = "queued"
    /\ \E fresh \in BOOLEAN, results \in LoopResults :
         predictWebcamLoop([twin EXCEPT !.loadeddata = "fired"], {}, fresh, results)

\* the 500 ms interval: once the video has data it calls predictWebcam if
\* rafId.current is null, and clears itself
checkReady ==
    /\ pc = "scene"
    /\ twin.checkReady
    /\ IF twin.readyState >= 2
       THEN IF twin.rafId = 0
            THEN \E results \in LoopResults :
                   predictWebcamLoop([twin EXCEPT !.checkReady = FALSE], {}, TRUE,
                                     results)
            ELSE /\ twin' = [twin EXCEPT !.checkReady = FALSE]
                 /\ UNCHANGED <<appVars, canvasVars, fnVars, scn>>
       ELSE UNCHANGED vars

\* the browser runs one requested animation frame callback
AnimationFrame ==
    \E id \in twin.requested, fresh \in BOOLEAN, results \in LoopResults :
        predictWebcamLoop(twin, {id}, fresh, results)

NextLoop ==
    \/ VideoHasData
    \/ handleVideoLoad
    \/ checkReady
    \/ AnimationFrame

SpecLoop == InitLoop /\ [][NextLoop]_vars

-----------------------------------------------------------------------------

(* Frames that land an element exactly on its rotation threshold *)

\* the frames of these behaviours, (delta, Math.sin(time * 2)): 0.4 s takes
\* a Gift and a PolaroidFrame from 0 to 0.8, 0.36 s an Ornaments population
\* to 0.9, 0.6 s the Star to 0.9
ThresholdTicks ==
    {<<<<2, 5>>, <<3, 5>>>>, <<<<9, 25>>, R(-1)>>, <<<<3, 5>>, <<3, 5>>>>}

NextThreshold ==
    \/ Toggle
    \/ nextUrl <= MaxUrls /\ Upload(<<"image">>)
    \/ Render
    \/ \E tick \in ThresholdTicks : Frame(tick[1], tick[2])

SpecThreshold == Init /\ [][NextThreshold]_vars

-----------------------------------------------------------------------------

(* The scale of each element, as a function of its progress *)

\* progress is drawn from the multiples of 1/ScaleGrid in [0, 1]
ScaleCalls ==
    {Call(fn, 0, Rat(n, ScaleGrid), base, <<>>) :
        fn \in {"OrnamentsScale", "GiftScale"}, n \in 0..ScaleGrid,
        base \in {<<3, 5>>, One, <<9, 5>>}}
    \cup {Call("StarScale", 0, Rat(n, ScaleGrid), One, <<>>) : n \in 0..ScaleGrid}
    \cup {Call("PolaroidScale", 0, Rat(n, ScaleGrid), hover, <<>>) :
            n \in 0..ScaleGrid, hover \in {One, <<11, 10>>}}

InitScale ==
    /\ InitIdle
    /\ scn = <<>>
    /\ call \in ScaleCalls
    /\ ret = <<>>
    /\ pc = "call"

CallOrnamentsScale == Return("OrnamentsScale", OrnamentsScale(call.p2, call.p1))

CallStarScale == Return("StarScale", StarScale(call.p1))

CallGiftScale == Return("GiftScale", GiftScale(call.p2, call.p1))

CallPolaroidScale ==
    Return("PolaroidScale", PolaroidScale(call.p2 = <<11, 10>>, call.p1))

NextScale ==
    \/ CallOrnamentsScale
    \/ CallStarScale
    \/ CallGiftScale
    \/ CallPolaroidScale

SpecScale == InitScale /\ [][NextScale]_vars

-----------------------------------------------------------------------------

(* The foliage vertex shader, as a function of its attributes and uniforms *)

\* float easeInOut(float t): the cubic ease of the shader
easeInOut(t) ==
    IF RLt(t, <<1, 2>>)
    THEN RMul(R(4), RMul(t, RMul(t, t)))
    ELSE LET u == RAdd(RMul(R(-2), t), R(2))
         IN  RSub(One, RDiv(RMul(u, RMul(u, u)), R(2)))

\* GLSL mix(x, y, a) = x * (1 - a) + y * a, componentwise
mix(x, y, a) == lerp3(x, y, a)

\* FoliageVertex with a breathing that is not scaled by the eased progress
FoliageVertexBreathingAlways(aScatterPosition, aPosition, uProgress, sine) ==
    LET m == lerp3(aScatterPosition, aPosition, easeInOut(uProgress))
        breathe == RMul(sine, <<1, 20>>)
    IN  <<RAdd(m[1], RMul(m[1], breathe)), m[2], RAdd(m[3], RMul(m[3], breathe))>>

\* main(): mixedPosition, the vertex position handed to modelViewMatrix;
\* aPosition is the position attribute,
\* sine is sin(uTime * 1.5 + position.y)
FoliageVertex(aScatterPosition, aPosition, uProgress, sine) ==
    LET easedProgress == easeInOut(uProgress)
        mixedPosition == mix(aScatterPosition, aPosition, easedProgress)
        breathe == RMul(RMul(sine, <<1, 20>>), easedProgress)
    IN  <<RAdd(mixedPosition[1], RMul(mixedPosition[1], breathe)),
          mixedPosition[2],
          RAdd(mixedPosition[3], RMul(mixedPosition[3], breathe))>>

\* values of sin(uTime * 1.5 + position.y)
VertexSines == {Zero, <<3, 5>>, R(-1)}

\* one particle's two endpoints, uProgress on the multiples of 1/VertexGrid
\* in [0, 1], and the sine the clock gives
VertexCalls ==
    [fn : {"FoliageVertexShader"},
     aScatterPosition : {<<R(4), R(-2), R(6)>>, <<R(-5), R(3), Zero>>},
     position : {<<One, R(2), R(-1)>>, <<Zero, R(5), Zero>>},
     uProgress : {Rat(n, VertexGrid) : n \in 0..VertexGrid},
     sine : VertexSines]

InitVertex ==
    /\ InitIdle
    /\ scn = <<>>
    /\ call \in VertexCalls
    /\ ret = <<>>
    /\ pc = "call"

CallFoliageVertex ==
    Return("FoliageVertexShader",
           FoliageVertex(call.aScatterPosition, call.position, call.uProgress,
                         call.sine))

NextVertex == CallFoliageVertex

SpecVertex == InitVertex /\ [][NextVertex]_vars

-----------------------------------------------------------------------------

(* One entity under a held target, with frames that keep arriving *)

SettleKinds == {"Foliage", "Star", "Ornaments", "Gift", "PolaroidFrame"}

\* frame deltas of 60 and 10 frames a second: rate * delta < 1 at every rate
SettleDeltas == {<<1, 60>>, <<1, 10>>}

\* the progress update of an entity of the kind
KindProgress(kind, cur, ts, delta) ==
    CASE kind = "Foliage" -> FoliageProgress(Nullish(cur, Zero), ts)
      [] kind = "Star" -> StarProgress(cur, ts, delta)
      [] kind = "Ornaments" -> OrnamentsProgress(cur, ts, delta)
      [] kind = "Gift" -> GiftProgress(cur, ts, delta)
      [] kind = "PolaroidFrame" -> PolaroidProgress(cur, ts, delta)

\* an entity at progress 0, half way or at 1 when the target starts to be held
InitSettle ==
    /\ InitIdle
    /\ call = <<>>
    /\ ret = <<>>
    /\ pc = "settle"
    /\ scn \in [kind : SettleKinds, treeState : {"TREE_SHAPE", "SCATTERED"},
                start : {Zero, <<1, 2>>, One}, progress : {Undefined}]

\* one frame of the entity's useFrame callback; frames counts modulo 2
SettleFrame(delta) ==
    /\ pc = "settle"
    /\ scn' = [scn EXCEPT !.progress =
                 KindProgress(scn.kind, Nullish(scn.progress, scn.start),
                              scn.treeState, delta)]
    /\ frames' = (frames + 1) % 2
    /\ UNCHANGED <<appVars, props, data, progress, position, rotation, rig,
                   time, fnVars, twin>>

NextSettle == \E delta \in SettleDeltas : SettleFrame(delta)

\* an animation frame is rendered: frames holds the parity of their count
FrameArrives == frames' = (frames + 1) % 2

\* the render loop runs on every animation frame, and every frame calls the
\* entity's useFrame callback: frames keep arriving
SpecSettle == InitSettle /\ [][NextSettle]_vars /\ WF_frames(FrameArrives)

-----------------------------------------------------------------------------

(* One element morphing from (10, 0, 0) to the origin, as a gift and as a
   photo frame (both handlers integrate at rate 2) *)

ScenarioElement ==
    [scatterPosition |-> <<R(10), Zero, Zero>>, treePosition |-> Vec0]

InitScenario ==
    /\ InitIdle
    /\ call = <<>>
    /\ ret = <<>>
    /\ pc = "scenario"
    /\ scn = [frames |-> 0,
              gift |-> [progress |-> Undefined, position |-> ScenarioElement.scatterPosition],
              photo |-> [progress |-> Undefined, position |-> ScenarioElement.scatterPosition]]

\* one frame of dt = 1/60 s with the target FORMED
ScenarioFrame ==
    /\ pc = "scenario"
    /\ scn.frames < ScenarioFrames
    /\ LET g == GiftProgress(scn.gift.progress, "TREE_SHAPE", <<1, 60>>)
           f == PolaroidProgress(scn.photo.progress, "TREE_SHAPE", <<1, 60>>)
       IN  scn' = [frames |-> scn.frames + 1,
                   gift |-> [progress |-> g,
                             position |-> GiftPosition(ScenarioElement, g)],
                   photo |-> [progress |-> f,
                              position |-> PolaroidPosition(ScenarioElement, f)]]
    /\ UNCHANGED <<appVars, canvasVars, fnVars, twin>>

NextScenario == ScenarioFrame

SpecScenario == InitScenario /\ [][NextScenario]_vars

-----------------------------------------------------------------------------
(* Properties of the pure functions *)

Sq(a) == RMul(a, a)
\* the squared planar radius x^2 + z^2 and squared norm of a point
PlanarSq(pt) == RAdd(Sq(pt[1]), Sq(pt[3]))
NormSq(pt) == RAdd(PlanarSq(pt), Sq(pt[2]))

\* particle k (from 1) of a flat buffer of xyz triples
Particle(buf, k) == <<buf[3 * k - 2], buf[3 * k - 1], buf[3 * k]>>

\* the ease as the design states it: 2t^2 below 0.5, else 1 - 2(1 - t)^2
StatedEase(t) ==
    IF RLt(t, <<1, 2>>)
    THEN RMul(R(2), Sq(t))
    ELSE RSub(One, RMul(R(2), Sq(RSub(One, t))))

\* C4: the updaters' ease equals the stated ease at every t in [0, 1], is 0
\* at 0 and 1 at 1, maps [0, 1] into [0, 1] and does not decrease from one
\* grid point of [0, 1] to the next.
EaseIsStatedEase ==
    Returned("ease") =>
        LET t == call.p1
            step == Rat(1, Resolution)
        IN  /\ ret = StatedEase(t)
            /\ RBetween(ret, Zero, One)
            /\ (t = Zero => ret = Zero)
            /\ (t = One => ret = One)
            /\ (RLe(step, t) => RLe(ease(RSub(t, step)), ret))

\* an ease evaluated on the upper branch, strictly inside (0, 1)
EaseUpperBranchApplied ==
    /\ Returned("ease")
    /\ RLt(<<1, 2>>, call.p1)
    /\ RLt(call.p1, One)
    /\ RLt(<<1, 2>>, ret)
    /\ RLt(ret, One)

\* C5: generateTreePositions and generatePilePositions return exactly count
\* entries; generateAttributeBuffers returns 3*count position, scatter and
\* colour components and count sizes (so nothing for count = 0, one entry
\* for count = 1).
GeneratorsReturnCount ==
    /\ Returned("generateTreePositions") => Len(ret) = call.count
    /\ Returned("generatePilePositions") => Len(ret) = call.count
    /\ Returned("generateAttributeBuffers") =>
        /\ Len(ret.treePositions) = 3 * call.count
        /\ Len(ret.scatterPositions) = 3 * call.count
        /\ Len(ret.colors) = 3 * call.count
        /\ Len(ret.sizes) = call.count

\* a generator returned for count = 1, with its one entry
OneEntryReturned ==
    /\ Returned("generateTreePositions")
    /\ call.count = 1
    /\ Len(ret) = 1
    /\ ret[1].treePosition # ret[1].scatterPosition

\* the cone radius at the re-centred height y: maxRadius * (1 - (y + h/2)/h)
ConeRadiusAt(y, height, maxRadius) ==
    RMul(maxRadius, RSub(One, RDiv(RAdd(y, RDiv(height, R(2))), height)))

\* C6: every treePosition of generateTreePositions has planar radius at most
\* maxRadius * (1 - (y + height/2)/height) and y in [-height/2, height/2].
TreeInsideCone ==
    Returned("generateTreePositions") =>
        \A k \in 1..Len(ret) :
            LET pt == ret[k].treePosition
                half == RDiv(call.p1, R(2))
                bound == ConeRadiusAt(pt[2], call.p1, call.p2)
            IN  /\ RBetween(pt[2], RNeg(half), half)
                /\ RLe(Zero, bound)
                /\ RLe(PlanarSq(pt), Sq(bound))

\* a returned tree entry off the axis and above the base
TreeEntryOffAxis ==
    /\ Returned("generateTreePositions")
    /\ \E k \in 1..Len(ret) :
        /\ RLt(Zero, PlanarSq(ret[k].treePosition))
        /\ RLt(RNeg(RDiv(call.p1, R(2))), ret[k].treePosition[2])

\* C7 as stated: every formed particle of generateAttributeBuffers has planar
\* radius at most maxRadius * (1 - y/height) at its height.
BuffersInsideCone ==
    Returned("generateAttributeBuffers") =>
        \A k \in 1..call.count :
            LET pt == Particle(ret.treePositions, k)
            IN  RLe(PlanarSq(pt), Sq(ConeRadiusAt(pt[2], call.p1, call.p2)))

\* C7, amended: every formed particle of generateAttributeBuffers has planar
\* radius at most maxRadius * (1 - y/height) + 0.25 at its height (the branch
\* noise of up to 0.25 either way is added to the radius drawn in the cone).
BuffersNearCone ==
    Returned("generateAttributeBuffers") =>
        \A k \in 1..call.count :
            LET pt == Particle(ret.treePositions, k)
                bound == RAdd(ConeRadiusAt(pt[2], call.p1, call.p2), <<1, 4>>)
            IN  RLe(PlanarSq(pt), Sq(bound))

\* a formed particle outside the cone silhouette
ParticleOutsideCone ==
    /\ Returned("generateAttributeBuffers")
    /\ \E k \in 1..call.count :
        LET pt == Particle(ret.treePositions, k)
        IN  RLt(Sq(ConeRadiusAt(pt[2], call.p1, call.p2)), PlanarSq(pt))

ScatterInsideBall ==
    /\ Returned("generateTreePositions") =>
        \A k \in 1..Len(ret) : RLe(NormSq(ret[k].scatterPosition), Sq(R(15)))
    /\ Returned("generatePilePositions") =>
        \A k \in 1..Len(ret) : RLe(NormSq(ret[k].scatterPosition), Sq(R(18)))
    /\ Returned("slots") =>
        \A k \in 1..Len(ret) : RLe(NormSq(ret[k].scatterPosition), Sq(R(18)))

\* the 20 slots returned, one of them scattered beyond radius 16
SlotsScattered ==
    /\ Returned("slots")
    /\ Len(ret) = 20
    /\ \E k \in 1..Len(ret) : RLt(Sq(R(16)), NormSq(ret[k].scatterPosition))

-----------------------------------------------------------------------------
(* Properties of the running scene *)

\* the stored progress of every animated entity, an unwritten one read as 0
AllProgress(pr) ==
    LET raw == <<pr.foliage, pr.star>> \o pr.ornaments \o pr.gifts \o pr.frames
    IN  [i \in DOMAIN raw |-> Nullish(raw[i], Zero)]

\* the target of every animated entity in a frame rendered with props pp, in
\* the order of AllProgress
AllTargets(pp) ==
    LET raw == <<pp.foliage, pp.star>> \o pp.ornaments \o pp.gifts \o pp.frames
    IN  [i \in DOMAIN raw |-> targetProgress(raw[i].treeState)]

\* C1: the stored progress of every animated entity (Foliage's uProgress,
\* the Star, each Ornaments population, each Gift, each PolaroidFrame) is
\* within [0, 1] in every reachable state, whatever the targets and the
\* frame deltas dt >= 0 were.
ProgressInUnitInterval ==
    \A i \in DOMAIN AllProgress(progress) :
        RBetween(AllProgress(progress)[i], Zero, One)

\* C2: in every frame, for every entity, the distance from the frame's
\* target to the progress does not grow and the progress does not move to
\* the other side of the target.
ProgressMonotonicTowardTarget ==
    [][frames' = frames + 1 =>
        \A i \in DOMAIN AllProgress(progress) :
            LET T == AllTargets(props)[i]
                p == AllProgress(progress)[i]
                q == AllProgress(progress')[i]
            IN  /\ RLe(RAbs(RSub(T, q)), RAbs(RSub(T, p)))
                /\ (RLe(p, T) => RLe(q, T))
                /\ (RLe(T, p) => RLe(T, q))]_vars

\* pos = s + l * (t - s) for one l in [0, 1], on the coordinates cs
OnSegmentIn(cs, pos, s, t) ==
    IF \A c \in cs : s[c] = t[c]
    THEN \A c \in cs : pos[c] = s[c]
    ELSE LET c0 == CHOOSE c \in cs : s[c] # t[c]
             l == RDiv(RSub(pos[c0], s[c0]), RSub(t[c0], s[c0]))
         IN  /\ RBetween(l, Zero, One)
             /\ \A c \in cs : pos[c] = RAdd(s[c], RMul(l, RSub(t[c], s[c])))

OnSegment(pos, s, t) == OnSegmentIn({1, 2, 3}, pos, s, t)

\* progress was written by a frame and lies in [0, 1]
InUnit(p) == p # Undefined /\ RBetween(p, Zero, One)

\* every ornament instance, gift and photo frame whose progress is in
\* [0, 1] is on its segment
RecordsOnSegment ==
    /\ \A p \in 1..3 : InUnit(progress.ornaments[p]) =>
          \A i \in DOMAIN data.ornaments[p] :
              OnSegment(position.ornaments[p][i],
                        data.ornaments[p][i].scatterPosition,
                        data.ornaments[p][i].treePosition)
    /\ \A i \in DOMAIN progress.gifts : InUnit(progress.gifts[i]) =>
          OnSegment(position.gifts[i],
                    data.gifts[i].scatterPosition, data.gifts[i].treePosition)
    /\ \A i \in DOMAIN progress.frames : InUnit(progress.frames[i]) =>
          OnSegment(position.frames[i],
                    SlotOf(i).scatterPosition, SlotOf(i).treePosition)

\* C3 as stated: for every ornament instance, gift, photo frame and the
\* star, and every progress in [0, 1], the emitted position lies on the
\* segment from scatterPosition to treePosition.
PositionsOnSegment ==
    /\ RecordsOnSegment
    /\ InUnit(progress.star) => OnSegment(position.star, data.starScatter, treePos)

\* C3, amended: ornament instances, gifts and photo frames with progress in
\* [0, 1] are on their segment, and so is the star while its progress is
\* below 0.9; from 0.9 on the star's x and z are those of a point of the
\* segment and its y is within 0.1 of treePos.y.
PositionsOnSegmentOrBobbing ==
    /\ RecordsOnSegment
    /\ InUnit(progress.star) =>
          IF RLt(progress.star, <<9, 10>>)
          THEN OnSegment(position.star, data.starScatter, treePos)
          ELSE /\ OnSegmentIn({1, 3}, position.star, data.starScatter, treePos)
               /\ RLe(RAbs(RSub(position.star[2], treePos[2])), <<1, 10>>)

\* the star bobs off its segment while a photo frame travels strictly
\* between its two endpoints
StarBobsWhileFrameTravels ==
    /\ InUnit(progress.star)
    /\ ~RLt(progress.star, <<9, 10>>)
    /\ position.star[2] # treePos[2]
    /\ \E i \in DOMAIN progress.frames :
          /\ InUnit(progress.frames[i])
          /\ RLt(Zero, progress.frames[i])
          /\ RLt(progress.frames[i], One)
          /\ position.frames[i] # SlotOf(i).scatterPosition
          /\ position.frames[i] # SlotOf(i).treePosition

\* C10: after 180 frames of dt = 1/60 s from progress 0 with the target
\* FORMED and rate 2, the x of the element morphing from (10, 0, 0) to the
\* origin is within 0.01 of 0, in the gift handler and in the photo frame
\* handler.
ScenarioSettles ==
    scn.frames >= 180 =>
        /\ RLe(RAbs(scn.gift.position[1]), <<1, 100>>)
        /\ RLe(RAbs(scn.photo.position[1]), <<1, 100>>)

\* the scenario ran its three seconds and the element has left (10, 0, 0)
ScenarioRan ==
    /\ scn.frames = 180
    /\ RLt(<<9, 10>>, scn.gift.progress)
    /\ RLt(scn.gift.position[1], One)
    /\ RLt(scn.photo.position[1], One)

\* the smoothing rate of every entity that integrates delta, in the order of
\* AllProgress; Foliage (index 1) takes no delta
AllRates(pr) ==
    <<Zero, <<3, 2>>>> \o [p \in DOMAIN pr.ornaments |-> <<5, 2>>]
        \o [i \in DOMAIN pr.gifts |-> R(2)] \o [i \in DOMAIN pr.frames |-> R(2)]

\* half a step of the grid stored values are kept to
HalfStep == Rat(1, 2 * Resolution)

\* C11: a change of treeState, and the render that hands it to the canvas,
\* leave every progress as it was; the next frame of the Star, an Ornaments
\* population, a Gift or a PolaroidFrame starts from that held value, does
\* not move away from the frame's target, and changes progress by at most
\* rate * dt * |target - progress| (up to the rounding of the stored value).
FlipKeepsProgress ==
    [][/\ (treeState' # treeState \/ props' # props) =>
            \A i \in DOMAIN AllProgress(progress) :
                AllProgress(progress')[i] = AllProgress(progress)[i]
       /\ frames' = frames + 1 =>
            \A i \in DOMAIN AllProgress(progress) \ {1} :
                LET T == AllTargets(props)[i]
                    p == AllProgress(progress)[i]
                    q == AllProgress(progress')[i]
                    dt == RSub(time', time)
                    step == RMul(RMul(AllRates(progress)[i], dt), RAbs(RSub(T, p)))
                IN  /\ RLe(RAbs(RSub(q, p)), RAdd(step, HalfStep))
                    /\ (RLe(p, T) => RLe(p, q))
                    /\ (RLe(T, p) => RLe(q, p))]_vars

\* the Star two frames in: one frame towards 1, then the flip to SCATTERED
\* rendered, then a frame that took the progress back below anything a
\* frame towards 1 leaves
FlippedMidTransition ==
    /\ frames = 2
    /\ props.star.treeState = "SCATTERED"
    /\ RLt(Zero, progress.star)
    /\ RLt(progress.star, <<1, 40>>)

\* C12: no frame, state flip, upload or render changes the tables generated
\* at mount: every treePosition, scatterPosition, base rotation and base
\* scale of the Foliage buffers, the Ornaments populations, the gifts and
\* the 20 slots stays what the generator returned.
EndpointsNeverMutated == [][data' = data]_vars

\* frames have run on a flipped scene holding an uploaded photo, and the
\* tables are still those of the mount
TablesKeptThroughRun ==
    /\ frames >= 2
    /\ props.star.treeState = "SCATTERED"
    /\ Len(progress.frames) > 0
    /\ progress.frames[1] # Undefined
    /\ \E seed \in Seeds : data = SceneData(seed)

\* C13: every entity's progress reads 0 until the first frame (Foliage's
\* uProgress is 0, userData.progress is unset and read as 0), a photo frame
\* mounted later starts with progress 0, and a step that is not a frame (a
\* flip, an upload, a render) leaves the progress of every mounted entity as
\* it was.
ProgressOnlyChangedByFrames ==
    [][/\ frames = 0 =>
            \A i \in DOMAIN AllProgress(progress) : AllProgress(progress)[i] = Zero
       /\ frames' = 0 =>
            \A i \in DOMAIN AllProgress(progress') : AllProgress(progress')[i] = Zero
       /\ frames' = frames =>
            /\ progress'.foliage = progress.foliage
            /\ progress'.star = progress.star
            /\ progress'.ornaments = progress.ornaments
            /\ progress'.gifts = progress.gifts
            /\ Len(progress'.frames) >= Len(progress.frames)
            /\ \A i \in DOMAIN progress'.frames :
                IF i \in DOMAIN progress.frames
                THEN progress'.frames[i] = progress.frames[i]
                ELSE Nullish(progress'.frames[i], Zero) = Zero]_vars

\* a photo frame mounted after the scene has moved and flipped, its progress
\* still 0 beside a Star whose progress the flip has not reset
FrameCreatedIntoRunningScene ==
    /\ frames >= 1
    /\ Len(progress.frames) = 1
    /\ Nullish(progress.frames[1], Zero) = Zero
    /\ props.star.treeState = "SCATTERED"
    /\ RLt(Zero, Nullish(progress.star, Zero))

\* C14: in every frame every entity, Foliage included, stores
\* progress + (target - progress) * rate * dt for the frame's delta dt: a
\* frame with dt = 0 leaves every progress unchanged, and the Star, the
\* Ornaments, the Gifts and the PolaroidFrames store that value at their
\* rates (up to the rounding of the stored value).
ProgressStepUsesDelta ==
    [][frames' = frames + 1 =>
        LET dt == RSub(time', time)
        IN  /\ dt = Zero =>
                \A i \in DOMAIN AllProgress(progress) :
                    AllProgress(progress')[i] = AllProgress(progress)[i]
            /\ \A i \in DOMAIN AllProgress(progress) \ {1} :
                LET T == AllTargets(props)[i]
                    p == AllProgress(progress)[i]
                    q == AllProgress(progress')[i]
                    exact == RAdd(p, RMul(RSub(T, p), RMul(AllRates(progress)[i], dt)))
                IN  RLe(RAbs(RSub(q, exact)), HalfStep)]_vars

\* the treeState every animated component was rendered with, in the order
\* of AllProgress
AllTreeStates(pp) ==
    LET raw == <<pp.foliage, pp.star>> \o pp.ornaments \o pp.gifts \o pp.frames
    IN  [i \in DOMAIN raw |-> raw[i].treeState]

\* C15: in every state the frame loop can run in, Foliage, the Star, the
\* three Ornaments populations, every Gift and every PolaroidFrame hold the
\* same treeState, so the useFrame callbacks of one frame all take their
\* target from one value, however button clicks and gesture callbacks
\* interleave with renders and frames.
OneTreeStatePerFrame ==
    \A i \in DOMAIN AllTreeStates(props) :
        AllTreeStates(props)[i] = AllTreeStates(props)[1]

\* frames ran with a photo frame mounted after a flip was rendered, and App
\* already holds the next flip, which the canvas has not rendered
FlipPendingBetweenFrames ==
    /\ frames >= 1
    /\ Len(props.frames) = 1
    /\ progress.frames[1] # Undefined
    /\ props.star.treeState = "SCATTERED"
    /\ treeState = "TREE_SHAPE"

\* C16: a canvas given the hand and a canvas never given one, rendered with
\* the same treeState and run through the same frames, hold the same
\* progress and the same position for every entity in every state; their
\* props differ in nothing but the CameraRig's handPosition and the
\* OrbitControls autoRotate flag.
HandLeavesLayoutAlone ==
    /\ twin.progress = progress
    /\ twin.position = position
    /\ [props EXCEPT !.rig = twin.props.rig, !.orbit = twin.props.orbit] = twin.props

\* two frames in, the hand has turned the rig and switched auto-rotation
\* off on one canvas only, while the Star has moved
HandTurnedRigOnly ==
    /\ frames >= 2
    /\ rig # twin.rig
    /\ props.orbit.autoRotate # twin.props.orbit.autoRotate
    /\ RLt(Zero, Nullish(progress.star, Zero))

TargetNeverReached ==
    [][frames' = frames + 1 =>
        \A i \in DOMAIN AllProgress(progress) :
            AllProgress(progress)[i] # AllTargets(props)[i] =>
                AllProgress(progress')[i] # AllTargets(props)[i]]_vars

\* C19: whatever was uploaded, photos holds at most 20 URLs; the canvas has
\* one PolaroidFrame per rendered photo, the frame of photo i (from 0) on
\* slot i, so the frames occupy a prefix of the slot table, which keeps its
\* 20 entries.
PhotosWithinSlots ==
    /\ Len(photos) <= 20
    /\ Len(data.slots) = 20
    /\ Len(props.frames) <= Len(data.slots)
    /\ Len(progress.frames) = Len(props.frames)
    /\ \A i \in DOMAIN props.frames :
        /\ props.frames[i].index = i - 1
        /\ SlotIndex(props.frames[i].index) = i
        /\ props.frames[i].url = photos[i]

\* all 20 slots taken by rendered photos, the 20th URL created being the
\* last one kept
AllSlotsTaken ==
    /\ Len(photos) = 20
    /\ Len(props.frames) = 20
    /\ photos[20] = nextUrl - 1

\* the largest rate at which a handler damps a rotation (Gift's delta * 5)
RotationRate == R(5)

\* every component of `to` is within the smoothing step of `from`, when
\* damping towards `base` over dt
WithinStep(from, to, base, dt) ==
    \A c \in 1..3 :
        RLe(RAbs(RSub(to[c], from[c])),
            RAdd(RMul(RMul(RotationRate, dt), RAbs(RSub(base[c], from[c]))), HalfStep))

\* C20: in the frame that takes an Ornaments population to progress 0.9 or
\* a Gift to progress 0.8 from below, the rotation of every instance and of
\* the gift moves from the previous frame's rotation towards the stored
\* base rotation by at most the smoothing step rate * dt * |base - rotation|.
RotationDampedAtThreshold ==
    [][(frames >= 1 /\ frames' = frames + 1) =>
        LET dt == RSub(time', time)
        IN  /\ \A p \in DOMAIN progress.ornaments :
                (/\ RLt(Nullish(progress.ornaments[p], Zero), <<9, 10>>)
                 /\ RLe(<<9, 10>>, progress'.ornaments[p])) =>
                    \A i \in DOMAIN data.ornaments[p] :
                        WithinStep(rotation.ornaments[p][i], rotation'.ornaments[p][i],
                                   data.ornaments[p][i].rotation, dt)
            /\ \A i \in DOMAIN progress.gifts :
                (/\ RLt(Nullish(progress.gifts[i], Zero), <<4, 5>>)
                 /\ RLe(<<4, 5>>, progress'.gifts[i])) =>
                    WithinStep(rotation.gifts[i], rotation'.gifts[i],
                               data.gifts[i].rotation, dt)]_vars

\* x + now * rate on each axis
Spun(base, now, rates) ==
    [c \in 1..3 |-> RAdd(base[c], RMul(now, rates[c]))]

\* the rotation a frame of length dt leaves on the Star, an ornament, a
\* Gift and a PolaroidFrame in each of its two regimes
StarFloating(cur, dt) ==
    <<RAdd(cur[1], RMul(dt, <<1, 2>>)), cur[2], RAdd(cur[3], RMul(dt, <<3, 10>>))>>

StarSettled(cur, dt) ==
    <<Quantize(lerp(cur[1], Zero, RMul(dt, R(3)))),
      RAdd(cur[2], RMul(dt, <<1, 2>>)),
      Quantize(lerp(cur[3], Zero, RMul(dt, R(3))))>>

GiftSettled(cur, base, dt) ==
    <<Quantize(lerp(cur[1], Zero, RMul(dt, R(5)))),
      base[2],
      Quantize(lerp(cur[3], Zero, RMul(dt, R(5))))>>

FrameSettled(cur, target, dt, wind) ==
    <<Quantize(lerp(cur[1], target[1], RMul(dt, R(4)))),
      Quantize(lerp(cur[2], target[2], RMul(dt, R(4)))),
      RAdd(Quantize(lerp(cur[3], target[3], RMul(dt, R(4)))), RMul(wind, <<1, 20>>))>>

\* in a frame every element's rotation is that of the regime its new raw
\* progress selects: floating below the threshold, settled from it on; for
\* a PolaroidFrame the settled regime starts at 0.8 when atThreshold holds
\* and only above 0.8 otherwise
RegimeSelected(atThreshold) ==
    frames' = frames + 1 =>
        LET dt == RSub(time', time)
        IN  /\ rotation'.star =
                IF RLt(progress'.star, <<9, 10>>)
                THEN StarFloating(rotation.star, dt)
                ELSE StarSettled(rotation.star, dt)
            /\ \A p \in DOMAIN data.ornaments : \A i \in DOMAIN data.ornaments[p] :
                rotation'.ornaments[p][i] =
                    IF RLt(progress'.ornaments[p], <<9, 10>>)
                    THEN Spun(data.ornaments[p][i].rotation, time',
                              <<<<1, 10>>, <<1, 10>>, Zero>>)
                    ELSE data.ornaments[p][i].rotation
            /\ \A i \in DOMAIN data.gifts :
                rotation'.gifts[i] =
                    IF RLt(progress'.gifts[i], <<4, 5>>)
                    THEN Spun(data.gifts[i].rotation, time',
                              <<<<1, 2>>, <<3, 10>>, <<1, 5>>>>)
                    ELSE GiftSettled(rotation.gifts[i], data.gifts[i].rotation, dt)
            /\ \A i \in DOMAIN progress.frames :
                LET t == progress'.frames[i]
                    settled == IF atThreshold THEN RLe(<<4, 5>>, t) ELSE RLt(<<4, 5>>, t)
                IN  \E sin2t \in Sines \cup {Zero} :
                        rotation'.frames[i] =
                            IF settled
                            THEN FrameSettled(rotation.frames[i], data.targets[i], dt,
                                              Wave(sin2t).wind[i])
                            ELSE Wave(sin2t).facing

\* C21: in every frame the rotation regime of the Star, every ornament,
\* every Gift and every PolaroidFrame is selected by the raw progress the
\* frame stored: floating (or camera-facing) strictly below the threshold,
\* settled at and above it, with thresholds 0.9 for Ornaments and Star and
\* 0.8 for Gift and PolaroidFrame.
RegimeSettledAtThreshold == [][RegimeSelected(TRUE)]_vars

\* C21, amended: as above, but a PolaroidFrame is settled only strictly
\* above 0.8, and camera-facing at exactly 0.8.
RegimeFromRawProgress == [][RegimeSelected(FALSE)]_vars

\* a frame left a Gift and a PolaroidFrame exactly on 0.8: the Gift
\* settled on its base yaw, the PolaroidFrame turned to the camera
FrameAndGiftOnThreshold ==
    /\ frames >= 1
    /\ Len(progress.frames) >= 1
    /\ progress.frames[1] = <<4, 5>>
    /\ progress.gifts[1] = <<4, 5>>
    /\ rotation.gifts[1][2] = data.gifts[1].rotation[2]
    /\ rotation.frames[1] = Wave(Zero).facing

\* C22: in every frame that leaves a Gift's progress at or above 0.8 the
\* gift's y rotation is its base rotation[1], and its x and z rotations are
\* no larger in magnitude than the frame before (up to the rounding of the
\* stored value), whatever the frame's delta.
GiftSettlesUpright ==
    [][frames' = frames + 1 =>
        \A i \in DOMAIN progress.gifts :
            RLe(<<4, 5>>, progress'.gifts[i]) =>
                /\ rotation'.gifts[i][2] = data.gifts[i].rotation[2]
                /\ \A c \in {1, 3} :
                    RLe(RAbs(rotation'.gifts[i][c]),
                        RAdd(RAbs(rotation.gifts[i][c]), HalfStep))]_vars

\* ret lies between lo and hi, whichever is larger
RWithin(x, lo, hi) == RBetween(x, lo, hi) \/ RBetween(x, hi, lo)

\* the call before the returned one on the progress grid, if any
ScaleStep == Rat(1, ScaleGrid)

SettleThreshold(kind) ==
    IF kind \in {"Gift", "PolaroidFrame"} THEN <<4, 5>> ELSE <<9, 10>>

\* the entity is on the side of its threshold that the held target selects
OnTargetSide ==
    LET t == Nullish(scn.progress, scn.start)
    IN  IF scn.treeState = "TREE_SHAPE"
        THEN RLe(SettleThreshold(scn.kind), t)
        ELSE RLt(t, SettleThreshold(scn.kind))

\* C24: with the target held and frames arriving at deltas with
\* rate * dt < 1, every entity's progress is eventually at or above its
\* threshold for good when the target is FORMED, and below it for good when
\* the target is SCATTERED.
EventuallySettled == <>[]OnTargetSide

\* the Star, started at progress 0 under a held FORMED target, at or above
\* 0.9
StarHeldFormed ==
    /\ pc = "settle"
    /\ scn.kind = "Star"
    /\ scn.treeState = "TREE_SHAPE"
    /\ scn.start = Zero
    /\ scn.progress # Undefined
    /\ RLe(<<9, 10>>, scn.progress)

\* the cubic ease-in-out, written out: 4 t^3 below one half, 1 - 4 (1 - t)^3
\* from there on
EasedCubic(t) ==
    LET u == RSub(One, t)
    IN  IF RLt(RMul(R(2), t), One)
        THEN RMul(R(4), RMul(RMul(t, t), t))
        ELSE RSub(One, RMul(R(4), RMul(RMul(u, u), u)))

\* the point of the segment from aScatterPosition to position at the eased
\* progress
SegmentPoint ==
    LET e == EasedCubic(call.uProgress)
    IN  [c \in 1..3 |->
           RAdd(call.aScatterPosition[c],
                RMul(e, RSub(call.position[c], call.aScatterPosition[c])))]

VertexDone == pc = "done" /\ call.fn = "FoliageVertexShader"

\* C25 as stated: the vertex position before the view transform is
\* mix(aScatterPosition, position, e): a point of the segment that depends
\* only on the two endpoints and the progress uniform.
VertexOnSegment ==
    VertexDone => \A c \in 1..3 : ret[c] = SegmentPoint[c]

\* C25: the eased progress e lies in [0, 1]; the y component of the vertex
\* position before the view transform is that of mix(aScatterPosition,
\* position, e); the x and z components are those of the mix scaled by
\* 1 + sin(uTime * 1.5 + position.y) * 0.05 * e, so they lie within 5% * e
\* of the mix, equal it when the sine is 0 and equal the scatter endpoint at
\* e = 0.
VertexBreathesAboutSegment ==
    VertexDone =>
      LET e == EasedCubic(call.uProgress)
      IN  /\ RBetween(e, Zero, One)
          /\ ret[2] = SegmentPoint[2]
          /\ \A c \in {1, 3} :
               /\ ret[c] = RMul(SegmentPoint[c],
                                RAdd(One, RMul(RMul(call.sine, <<1, 20>>), e)))
               /\ RLe(RAbs(RSub(ret[c], SegmentPoint[c])),
                      RMul(RMul(<<1, 20>>, e), RAbs(SegmentPoint[c])))
          /\ call.sine = Zero => \A c \in 1..3 : ret[c] = SegmentPoint[c]
          /\ call.uProgress = Zero => ret = call.aScatterPosition

\* a particle part of the way in, pushed off the segment by the breathing
VertexOffSegment ==
    /\ VertexDone
    /\ RLt(Zero, call.uProgress)
    /\ RLt(call.uProgress, One)
    /\ call.sine # Zero
    /\ ret[1] # SegmentPoint[1]

\* no two rendered photo frames take the same entry of the slot table
SlotsNotShared ==
    \A i, j \in DOMAIN props.frames :
        i # j => SlotIndex(props.frames[i].index) # SlotIndex(props.frames[j].index)

\* every photo rendered before the step is rendered after it, under its
\* URL, with the same entry of an unchanged slot table
SlotsKept ==
    \A i \in DOMAIN props.frames :
        \E j \in DOMAIN props'.frames :
            /\ props'.frames[j].url = props.frames[i].url
            /\ SlotIndex(props'.frames[j].index) = SlotIndex(props.frames[i].index)
            /\ data'.slots[SlotIndex(props'.frames[j].index)]
                 = data.slots[SlotIndex(props.frames[i].index)]

\* C26: no two simultaneously rendered photo frames share a slot (photo i
\* uses slot i mod 20, with at most 20 photos), and appending photos never
\* changes the slot of a photo already rendered.
SlotsExclusiveAndStable == []SlotsNotShared /\ [][SlotsKept]_vars

\* seven photos rendered, from more than one upload, and six more appended
\* but not yet rendered
AppendedToRenderedPhotos ==
    /\ Len(props.frames) = 7
    /\ Len(photos) = 13

\* the state a recognition result switches to: that of a fist or an open
\* palm scored above 0.5, else none
GestureState(results) ==
    IF results.threw \/ results.gestures = <<>> THEN "none"
    ELSE IF ~RLt(<<1, 2>>, results.gestures[1].score) THEN "none"
    ELSE IF results.gestures[1].categoryName = "Closed_Fist" THEN "TREE_SHAPE"
    ELSE IF results.gestures[1].categoryName = "Open_Palm" THEN "SCATTERED"
    ELSE "none"

\* a processed video frame sets treeState to the state of its gesture, and
\* leaves it alone when there is none
GestureSwitches ==
    \A results \in GestureResults :
        predictWebcam(results) =>
            treeState' = IF GestureState(results) = "none" THEN treeState
                         ELSE GestureState(results)

\* C27: the gesture controller changes treeState only when the top gesture
\* scores above 0.5 and is Closed_Fist (TREE_SHAPE) or Open_Palm
\* (SCATTERED); any other category, a score of at most 0.5, no gesture or a
\* recognition error leaves treeState unchanged.
GestureOnlyAboveHalf == [][GestureSwitches]_vars

\* a hand in view and the scene scattered
ScatteredWithHandInView ==
    /\ treeState = "SCATTERED"
    /\ handPosition.isActive

\* C28: at most one predictWebcam loop is pending (one outstanding
\* requestAnimationFrame) at any time, for any interleaving of the video's
\* loadeddata handler, the 500 ms readiness interval and the animation
\* frames.
OneLoopPending == Cardinality(twin.requested) <= 1

\* a click writes the opposite of the state it finds; a processed video
\* frame with a fist or an open palm above 0.5 writes that gesture's state
\* over whatever was written last, a click included
LastWriterDecides ==
    /\ Toggle => treeState' = Other(treeState)
    /\ \A ts \in {"TREE_SHAPE", "SCATTERED"} :
         \A results \in {r \in GestureResults : GestureState(r) = ts} :
            predictWebcam(results) => treeState' = ts

RigTarget ==
    LET hand == props.rig.handPosition
    IN  IF hand.isActive
        THEN [x |-> RMul(<<3, 10>>, hand.y), y |-> RNeg(RMul(<<1, 2>>, hand.x))]
        ELSE [x |-> Zero, y |-> Zero]

\* a frame moves the rig from where it is towards RigTarget by 2 * delta of
\* the way
RigSteered ==
    frames' = frames + 1 =>
        \E tick \in HandTicks :
            \A c \in {"x", "y"} :
                rig'[c] = Quantize(RAdd(rig[c],
                                        RMul(RSub(RigTarget[c], rig[c]),
                                             RMul(R(2), tick[1]))))

\* auto-rotation is on exactly with the tree formed and no hand; the targets,
\* and with them the rig, stay within 0.5 rad about y and 0.3 rad about x
RigBounded ==
    /\ props.orbit.autoRotate
         <=> (props.star.treeState = "TREE_SHAPE" /\ ~props.rig.handPosition.isActive)
    /\ RLe(RAbs(RigTarget.y), <<1, 2>>)
    /\ RLe(RAbs(RigTarget.x), <<3, 10>>)
    /\ RLe(RAbs(rig.y), <<1, 2>>)
    /\ RLe(RAbs(rig.x), <<3, 10>>)

\* C30: CameraRig steers to (-hand.x * 0.5, hand.y * 0.3) about (y, x) while
\* the hand is active and to (0, 0) otherwise; OrbitControls auto-rotates
\* iff the state is TREE_SHAPE and the hand is not active; with the hand in
\* [-1, 1] the targets are bounded by 0.5 rad (y) and 0.3 rad (x).
RigFollowsHandWithinBounds == []RigBounded /\ [][RigSteered]_vars

\* the rig turned by a hand in the corner of the image, auto-rotation off
RigTurnedByHand ==
    /\ frames >= 1
    /\ props.rig.handPosition.isActive
    /\ ~props.orbit.autoRotate
    /\ rig.y # Zero
    /\ rig.x # Zero

====
